---- MODULE Spec2Model ----
(***************************************************************************)
(* Model of the PNCP harvester (src/pncp.py).                              *)
(*                                                                         *)
(* SpecGet   : one get_with_backoff call, on a session built by            *)
(*             build_session (HTTPAdapter mounted with ADAPTER_RETRY).     *)
(* SpecFetch : the month loop of __main__ calling                          *)
(*             fetch_contratacoes_multi_modalidade, with page-size         *)
(*             negotiation (fetch_page_with_pagesize) and the concurrent   *)
(*             page workers of fetch_all_pages_for_modalidade.             *)
(*                                                                         *)
(* Durations are integers in microseconds.                                 *)
(***************************************************************************)
EXTENDS Integers, Sequences, FiniteSets, Bags, TLC

VARIABLES
    \* ---- get_with_backoff (SpecGet) ----
    max_retries,    \* keyword argument of get_with_backoff
    attempt,        \* local variable "attempt"
    gpc,            \* "get" (line 170, about to call session.get), "urlopen" (inside
                    \* the adapter, between two wire requests), "returned", "raised"
    adapter_total,  \* remaining Retry.total of the session.get call in progress
    adapter_errs,   \* consecutive failures recorded by the adapter in this session.get
    get_calls,      \* number of session.get calls made by get_with_backoff
    wire_count,     \* number of requests put on the wire
    gwb_sleeps,     \* number of time.sleep calls of get_with_backoff (line 179)
    last_sleep,     \* the last pause before a request: who slept, after what, how long
    seen,           \* retryable responses delivered to get_with_backoff, by class
    all503,         \* every wire answer so far was a 503
    r,              \* local variable "r": the last response session.get returned
    delivered,      \* number of responses session.get returned to get_with_backoff
    result,         \* what the call ended with
    \* ---- page harvest (SpecFetch) ----
    PAGE_SIZE_CANDIDATES, \* module-level list of page sizes to try, in order
    PAGE_SIZE_CACHE,      \* dict (modalidade, modo) -> accepted page size
    month,          \* index i of the month loop of __main__
    mpc,            \* position of the main thread
    mi,             \* index of the modality being discovered
    di,             \* index into "discovered" in the second loop
    discovered,     \* local list of fetch_contratacoes_multi_modalidade
    all_contratacoes, \* local list of fetch_contratacoes_multi_modalidade
    results,        \* local list of fetch_all_pages_for_modalidade
    fp,             \* per thread: its fetch_page_with_pagesize call
    collected,      \* pages whose future as_completed has handed to the main thread
    submitted,      \* per page: number of ex.submit calls in this fetch_all_pages call
    negotiations,   \* per key: times the candidate loop (line 293) was entered
    failed_pages    \* <<modalidade, page>> pairs that failed in this month

VARIABLES
    \* ---- calls of fetch_contratacoes_multi_modalidade (SpecCalls) ----
    first_fetch,    \* per window: what its first fetch returned (or NotFetched)
    last_fetch      \* the last call: its window, its page fetches, its records

VARIABLES
    \* ---- item stage of one month (SpecItens) ----
    MAX_WORKERS_ITENS, \* pool size and number of CONC_ITENS permits
    CONC_ITENS,     \* the semaphore: permits available
    filtradas_mes,  \* the records that passed the filter on objetoCompra
    ids_do_mes,     \* ids in the order of first appearance
    ipc,            \* position of the main thread in the item stage
    wk,             \* per submitted id (by position in ids_uniq): its future
    encontrados,    \* local list of fetch_itens_para_ids
    itens_coletados, \* positions whose future as_completed has handed over
    item_calls,     \* itens_pncp_por_id calls so far, per position of ids_uniq
    max_holding     \* largest number of permits held at once so far

VARIABLES
    \* ---- gerar_intervalos_mensais (SpecSplit) ----
    start_date,     \* the parsed data_inicial_str
    end_date,       \* the parsed data_final_str
    current_date,   \* the loop variable
    intervalos,     \* the list of (start, end) strings built so far
    spc             \* position: "idle", "loop", "returned"

VARIABLES
    \* ---- the month loop of __main__ as a whole (SpecRun) ----
    run_i,              \* index of the month being processed
    rpc,                \* position of __main__
    contratacoes_mes,   \* what fetch_contratacoes_multi_modalidade returned
    itens_brutos_mes,   \* what fetch_itens_para_ids returned
    dados_para_json_mes, \* the ids in the month's report
    unificado_sections, \* number of month sections written so far
    tentadas,           \* modalities whose discovery was attempted this month
    descobertas,        \* those of them whose discovery succeeded
    falhas              \* which kinds of unit have failed so far in the run

VARIABLES
    \* ---- the fornecedor table (SpecForn) ----
    fornecedor,     \* the rows in order of insertion: row i has id i and this nome
    goc,            \* per thread: where it is inside get_or_create_fornecedor
    last_goc        \* the get_or_create_fornecedor call that ended last

VARIABLES
    \* ---- format_currency / parse_currency (SpecCurrency) ----
    valor,          \* the argument of format_currency: [none, n]
    texto,          \* the text formatted or handed to parse_currency
    centavos,       \* what parse_currency returned: [raised, n]
    upc             \* "idle", "start", "formatted", "parsed", "parsed_text"

VARIABLES
    \* ---- one item of the items endpoint (SpecItem) ----
    it_pncp,        \* the upstream item: the four keys the normalisation reads
    out_itens,      \* the list itens_pncp_por_id returns
    tpc             \* "loop" before the item is normalised, "returned" after

VARIABLES
    \* ---- the ata and ata_item tables (SpecAta) ----
    ata,            \* the rows of ata: id, numero, valor_total_centavos
    ata_item,       \* the rows of ata_item (a bag): ata_id, quantidade, valor_unit_centavos
    last_op         \* the call that ended last and what it raised

VARIABLES
    \* ---- fetch_atas and the situacao of an ata (SpecSituacao) ----
    data_fim,       \* ata.data_fim, as a day number
    agora,          \* the clock (UTC), in ticks of three hours
    fuso,           \* how many ticks local time is behind UTC
    dias_alerta_vencimento,  \* the config row of that key (NoConfig: none)
    view_situacao,  \* row["situacao"] of v_ata_situacao
    res_atas,       \* the lists fetch_atas returns: the situacao of their dicts
    qpc             \* "query", "rows" (the view was read), "returned"

gvars == <<max_retries, attempt, gpc, adapter_total, adapter_errs, get_calls,
           wire_count, gwb_sleeps, last_sleep, seen, all503, r, delivered, result>>

fvars == <<PAGE_SIZE_CANDIDATES, PAGE_SIZE_CACHE, month, mpc, mi, di, discovered,
           all_contratacoes, results, fp, collected, submitted, negotiations,
           failed_pages>>

cvars == <<first_fetch, last_fetch>>

ivars == <<MAX_WORKERS_ITENS, CONC_ITENS, filtradas_mes, ids_do_mes, ipc, wk,
           encontrados, itens_coletados, item_calls, max_holding>>

\* the variables of the specifications other than SpecGet and SpecFetch
svars == <<start_date, end_date, current_date, intervalos, spc>>

rvars == <<run_i, rpc, contratacoes_mes, itens_brutos_mes, dados_para_json_mes,
           unificado_sections, tentadas, descobertas, falhas>>

nvars == <<fornecedor, goc, last_goc>>

uvars == <<valor, texto, centavos, upc>>

tvars == <<it_pncp, out_itens, tpc>>

avars == <<ata, ata_item, last_op>>

qvars == <<data_fim, agora, fuso, dias_alerta_vencimento, view_situacao, res_atas, qpc>>

xvars == <<cvars, ivars, svars, rvars, nvars, uvars, tvars, avars, qvars>>

vars == <<gvars, fvars, xvars>>

-----------------------------------------------------------------------------
(* Configuration                                                           *)

DEFAULT_MAX_RETRIES == 4
ADAPTER_RETRY_total == 2
ADAPTER_RETRY_backoff_factor == 300000
ADAPTER_RETRY_status_forcelist == {502, 503, 504}

NoHeader == -1
\* statuses the modelled server may answer with
Statuses == {200, 400, 404, 429, 500, 503}
\* values of the Retry-After header, in seconds (NoHeader: no such header)
RetryAfterValues == {NoHeader, 3}
\* values of max_retries a caller passes (every caller in src/ uses the default)
MaxRetriesValues == {0, 1, 2, DEFAULT_MAX_RETRIES}

Second == 1000000

-----------------------------------------------------------------------------
(* Pure helpers of get_with_backoff and of the mounted adapter             *)

Is2xx(s) == 200 <= s /\ s < 300
\* faulty variant: every 4xx is retried as well
IsRetryStatus_4xx(s) == s = 429 \/ (400 <= s /\ s < 600)
\* line 173: r.status_code == 429 or 500 <= r.status_code < 600
IsRetryStatus(s) == s = 429 \/ (500 <= s /\ s < 600)

\* faulty variant: gives up one attempt early
BudgetExhausted_ge(a, m) == a >= m
\* line 175: if attempt > max_retries
BudgetExhausted(a, m) == a > m

\* wait = (1.4 ** attempt) + attempt * 0.25, in microseconds (exact for attempt <= 6)
Wait(a) == (14 ^ a) * (10 ^ (6 - a)) + a * 250000

\* Retry.is_retry as configured by ADAPTER_RETRY: a forced status is always
\* retried; a 429/503 carrying Retry-After is retried while total is non-zero.
AdapterIsRetry(status, ra, total) ==
    \/ status \in ADAPTER_RETRY_status_forcelist
    \/ (total > 0 /\ ra # NoHeader /\ status \in {429, 503})

\* Retry.get_backoff_time: nothing after the first failure, then factor * 2^(n-1)
AdapterBackoff(errs) ==
    IF errs <= 1 THEN 0 ELSE ADAPTER_RETRY_backoff_factor * (2 ^ (errs - 1))

\* Retry.sleep: the Retry-After value when the response has one, else the backoff
AdapterSleep(ra, errs) ==
    IF ra # NoHeader THEN ra * Second ELSE AdapterBackoff(errs)

NoSleep == [by |-> "none", status |-> 0, ra |-> NoHeader, wait |-> 0, attempt |-> 0]
NoResult == [kind |-> "none", status |-> 0]

-----------------------------------------------------------------------------
(* Page harvest: configuration and pure helpers                            *)

MAX_WORKERS_PAGES == 20

\* largest totalPaginas the modelled server reports
MaxPages == 3
\* number of monthly windows of the run
NumMonths == 2

NoneVal == -1      \* Python None
Omitted == 0       \* a query parameter that is not sent

\* modalidades and modo as typed by the user: two modalities, no dispute mode
Modalidades == <<6, 8>>
Modo == NoneVal
\* PAGE_SIZE_CANDIDATES as shipped ([50]) and longer lists in the order of test
CandidateLists == {<<50>>, <<500, 200>>, <<500, NoneVal>>}

Key(m) == <<m, Modo>>
Keys == {Key(Modalidades[i]) : i \in DOMAIN Modalidades}

MainThread == 0
PageWorkers == 2..MaxPages
Threads == {MainThread} \cup PageWorkers

\* records of page p of modality m on the server; neighbouring pages share a record
Data(m, p) == <<10 * m + p, 10 * m + p + 1>>
Records == UNION {{10 * Modalidades[i] + p, 10 * Modalidades[i] + p + 1} :
                    i \in DOMAIN Modalidades, p \in 1..(MaxPages + 1)}

\* the envelope fields of a page-1 payload
Envelopes ==
    {[totalPaginas |-> t, totalPaginasConsulta |-> NoneVal] : t \in 1..MaxPages}
    \cup {[totalPaginas |-> NoneVal, totalPaginasConsulta |-> t] : t \in 1..MaxPages}
    \cup {[totalPaginas |-> 0, totalPaginasConsulta |-> t] : t \in 1..MaxPages}
    \cup {[totalPaginas |-> NoneVal, totalPaginasConsulta |-> NoneVal]}
NoTotals == [totalPaginas |-> NoneVal, totalPaginasConsulta |-> NoneVal]

\* str(e) of an HTTPError raised by get_with_backoff, "HTTP {status} em {url}\n{body}":
\* its status, whether the body has "Tamanho de página inválido", and whether
\* the url or body has the digits "400"
HTTPErrors ==
    {[status |-> 400, sizeMsg |-> TRUE, txt400 |-> FALSE],
     [status |-> 400, sizeMsg |-> FALSE, txt400 |-> FALSE],
     [status |-> 404, sizeMsg |-> FALSE, txt400 |-> FALSE],
     [status |-> 500, sizeMsg |-> FALSE, txt400 |-> TRUE]}
NoErr == [status |-> 0, sizeMsg |-> FALSE, txt400 |-> FALSE]

\* what a get_with_backoff call ends with: a 2xx response, an HTTPError, or
\* another exception (RetryError, ConnectionError, undecodable JSON)
Outcomes(pagina) ==
    {[kind |-> "ok", err |-> NoErr, env |-> env] :
        env \in (IF pagina = 1 THEN Envelopes ELSE {NoTotals})}
    \cup {[kind |-> "HTTPError", err |-> e, env |-> NoTotals] : e \in HTTPErrors}
    \cup {[kind |-> "Exception", err |-> NoErr, env |-> NoTotals]}

\* line 307: "Tamanho de página inválido" in msg or "400" in msg
IsSizeError(e) == e.sizeMsg \/ e.status = 400 \/ e.txt400

\* lines 288-290 and 295-297: tamanhoPagina is sent unless ps is None
TamanhoPagina(ps) == IF ps # NoneVal THEN ps ELSE Omitted

\* faulty variant: the first candidate is cached, whichever was accepted
CacheStore_first(cache, key, ps) ==
    [k \in DOMAIN cache \cup {key} |-> IF k = key THEN PAGE_SIZE_CANDIDATES[1] ELSE cache[k]]
\* line 301: PAGE_SIZE_CACHE[key] = ps
CacheStore(cache, key, ps) ==
    [k \in DOMAIN cache \cup {key} |-> IF k = key THEN ps ELSE cache[k]]

\* faulty variant: the alternate field is not looked at
TotalPages_noalt(payload) ==
    IF payload.totalPaginas \notin {NoneVal, 0} THEN payload.totalPaginas ELSE 1
\* line 316: payload.get("totalPaginas") or payload.get("totalPaginasConsulta") or 1
TotalPages(payload) ==
    IF payload.totalPaginas \notin {NoneVal, 0} THEN payload.totalPaginas
    ELSE IF payload.totalPaginasConsulta \notin {NoneVal, 0} THEN payload.totalPaginasConsulta
    ELSE 1

\* faulty variant: range(2, total_pages) leaves the last page out
SubmitPages_short(total_pages) == 2..(total_pages - 1)
\* line 328: range(2, total_pages + 1)
SubmitPages(total_pages) == 2..total_pages

\* faulty variant: a failed future throws away what was collected so far
Extend_abort(res, call) ==
    IF call.st = "ok" THEN res \o call.data ELSE <<>>
\* lines 330-336: a future's records are appended, a failed future is logged
Extend(res, call) ==
    IF call.st = "ok" THEN res \o call.data ELSE res

IdleCall == [st |-> "idle", path |-> "none", m |-> 0, pagina |-> 0, ci |-> 0,
             ps |-> NoneVal, sent |-> <<>>, rejected |-> <<>>,
             env |-> NoTotals, data |-> <<>>]

NewCall(st, m, pagina) == [IdleCall EXCEPT !.st = st, !.m = m, !.pagina = pagina]

-----------------------------------------------------------------------------
(* Whole calls of fetch_contratacoes_multi_modalidade: helpers             *)

\* the (data_ini, data_fim) windows a caller asks for
Windows == {<<20240101, 20240131>>, <<20240201, 20240229>>}

\* what the server holds for one window: per modality the page count
\* (0: the page-1 request fails) and the pages >= 2 whose request fails
ServerStates(withFailures) ==
    [DOMAIN Modalidades ->
        {[total |-> t, failed |-> f] :
            t \in 0..MaxPages,
            f \in (IF withFailures THEN SUBSET (2..MaxPages) ELSE {{}})}]

\* the pages of modality i whose records reach the result (lines 343-352)
PagesKept(srv, i) ==
    IF srv[i].total = 0 THEN {}
    ELSE {1} \cup {pg \in SubmitPages(srv[i].total) : pg \notin srv[i].failed}

\* number of fetch_page_with_pagesize calls of one call: page 1 of every
\* modality (line 345) and pages 2..total of every discovered one (line 328);
\* each of them sends at least one request (lines 291, 299)
PageFetches(srv) ==
    LET n[i \in 0..Len(Modalidades)] ==
            IF i = 0 THEN 0
            ELSE n[i - 1] + 1
                 + (IF srv[i].total = 0 THEN 0 ELSE Cardinality(SubmitPages(srv[i].total)))
    IN n[Len(Modalidades)]

\* the records of pages S of modality m, in page order
RECURSIVE PageRecords(_, _)
PageRecords(m, S) ==
    IF S = {} THEN <<>>
    ELSE LET lo == CHOOSE x \in S : \A y \in S : x <= y
         IN Data(m, lo) \o PageRecords(m, S \ {lo})

\* all_contratacoes as returned by line 354 (pages >= 2 listed in page order)
WindowRecords(srv) ==
    LET acc[i \in 0..Len(Modalidades)] ==
            IF i = 0 THEN <<>>
            ELSE acc[i - 1] \o PageRecords(Modalidades[i], PagesKept(srv, i))
    IN acc[Len(Modalidades)]

NotFetched == <<-1>>
NoFetch == [window |-> <<0, 0>>, fetches |-> 0, records |-> <<>>, repeated |-> FALSE]

-----------------------------------------------------------------------------
(* Item stage: strings, id derivation and helpers                          *)

\* strings are sequences of characters
Slash == "/"
Dash == "-"
EmptyStr == <<>>

\* str.split(sep) for a one-character separator
RECURSIVE SplitFrom(_, _, _, _)
SplitFrom(str, sep, i, cur) ==
    IF i > Len(str) THEN <<cur>>
    ELSE IF str[i] = sep THEN <<cur>> \o SplitFrom(str, sep, i + 1, EmptyStr)
    ELSE SplitFrom(str, sep, i + 1, Append(cur, str[i]))
Split(str, sep) == SplitFrom(str, sep, 1, EmptyStr)

\* str.lstrip("0")
RECURSIVE LStripZeros(_)
LStripZeros(str) ==
    IF str # EmptyStr /\ Head(str) = "0" THEN LStripZeros(Tail(str)) ELSE str

\* str(n) for 0 <= n <= 99
DigitChar(d) == <<"0", "1", "2", "3", "4", "5", "6", "7", "8", "9">>[d + 1]
Dec(n) == IF n < 10 THEN <<DigitChar(n)>> ELSE <<DigitChar(n \div 10), DigitChar(n % 10)>>

\* f"{cnpj}/{ano}/{seq}"
JoinId(cnpj, ano, seq) == cnpj \o <<Slash>> \o ano \o <<Slash>> \o seq

NoId == EmptyStr

\* lines 118-128: format_id_pncp_from_numero_controle (the id of the pair it returns)
format_id_pncp_from_numero_controle(raw) ==
    LET parts == Split(raw, Slash)
    IN IF Len(parts) # 2 THEN NoId
       ELSE LET left == parts[1]
                ano == parts[2]
                lp == Split(left, Dash)
                cnpj == lp[1]
                seq_raw == lp[Len(lp)]
                stripped == LStripZeros(seq_raw)
                seq == IF stripped = EmptyStr THEN <<"0">> ELSE stripped
            IN JoinId(cnpj, ano, seq)

\* lines 560-570: the id of a record, from the control number or the fallback fields
DeriveId(c) ==
    LET fromNc == IF c.nc # EmptyStr THEN format_id_pncp_from_numero_controle(c.nc) ELSE NoId
    IN IF fromNc # NoId THEN fromNc
       ELSE IF c.fields THEN JoinId(c.cnpj, Dec(c.ano), Dec(c.seq))
       ELSE NoId

\* faulty variant: the record is appended without looking at id_to_info_mes
AppendId_nodedup(ids, idp) ==
    IF idp # NoId THEN Append(ids, idp) ELSE ids
\* line 572: if id_pncp and id_pncp not in id_to_info_mes
AppendId(ids, idp) ==
    IF idp # NoId /\ \A k \in DOMAIN ids : ids[k] # idp THEN Append(ids, idp) ELSE ids

\* the loop of lines 558-595 over the filtered records
RECURSIVE DeriveIds(_, _)
DeriveIds(recs, ids) ==
    IF recs = <<>> THEN ids
    ELSE DeriveIds(Tail(recs), AppendId(ids, DeriveId(Head(recs))))

\* records as the consulta endpoint returns them: the control number (empty:
\* absent), whether the fallback keys are present, and the contract they are
\* about (cnpj, ano, seq)
Contratacao(nc, fields, seq) ==
    [nc |-> nc, fields |-> fields, cnpj |-> <<"1", "2">>, ano |-> 24, seq |-> seq]
RecordShapes ==
    {Contratacao(<<"1","2","-","1","-","0","0","7","/","2","4">>, TRUE, 7),
     Contratacao(EmptyStr, TRUE, 7),
     Contratacao(<<"1","2","-","1","-","0","0","7">>, TRUE, 7),
     Contratacao(<<"1","2","-","1","-","0","0","8","/","2","4">>, FALSE, 8),
     Contratacao(EmptyStr, TRUE, 9),
     Contratacao(EmptyStr, FALSE, 9)}

\* most records in one month's filtered list
MaxRecords == 3
\* largest pool size / permit count tried
MaxPool == 2

RECURSIVE SeqsUpTo(_, _)
SeqsUpTo(S, n) ==
    IF n = 0 THEN {<<>>}
    ELSE LET shorter == SeqsUpTo(S, n - 1)
         IN shorter \cup {Append(q, x) : q \in {z \in shorter : Len(z) = n - 1}, x \in S}

\* the items the items endpoint holds for an id: two per record
Itens(idp) == <<[id_pncp |-> idp, Numero |-> 1], [id_pncp |-> idp, Numero |-> 2]>>

\* faulty variant: a failed future throws away the items found so far
ExtendItens_abort(found, fut) ==
    IF fut.st = "ok" THEN found \o fut.itens ELSE <<>>
\* lines 404-410: a future's items are appended, a failed future is logged
ExtendItens(found, fut) ==
    IF fut.st = "ok" THEN found \o fut.itens ELSE found

\* faulty variant: the pool starts one thread more than max_workers
PoolHasFreeThread_plus1(busy, size) == busy < size + 1
\* line 400: ThreadPoolExecutor(max_workers=MAX_WORKERS_ITENS)
PoolHasFreeThread(busy, size) == busy < size

IdleFuture == [st |-> "none", idp |-> NoId, itens |-> <<>>]

ItensIdle ==
    /\ MAX_WORKERS_ITENS = 1
    /\ CONC_ITENS = 1
    /\ filtradas_mes = <<>>
    /\ ids_do_mes = <<>>
    /\ ipc = "idle"
    /\ wk = [k \in 1..MaxRecords |-> IdleFuture]
    /\ encontrados = <<>>
    /\ itens_coletados = {}
    /\ item_calls = [k \in 1..MaxRecords |-> 0]
    /\ max_holding = 0

-----------------------------------------------------------------------------
(* gerar_intervalos_mensais: dates and the calendar                        *)

\* the months the general period is drawn from
MaxSpanMonths == 4
\* the first of them: December 2023, so that the span crosses a year's end
\* and the February of a leap year
FirstMonth == [year |-> 2023, month |-> 12]

IsLeap(y) == (y % 4 = 0 /\ y % 100 # 0) \/ y % 400 = 0

\* calendar.monthrange(year, month)[1]
monthrange(y, m) ==
    IF m = 2 THEN (IF IsLeap(y) THEN 29 ELSE 28)
    ELSE IF m \in {4, 6, 9, 11} THEN 30
    ELSE 31

Date(y, m, d) == [year |-> y, month |-> m, day |-> d]

\* datetime.strptime(str, "%Y%m%d") of an eight-digit string, read as a number
strptime(n) == Date(n \div 10000, (n \div 100) % 100, n % 100)
\* datetime.strftime("%Y%m%d")
strftime(dt) == dt.year * 10000 + dt.month * 100 + dt.day

\* the order of datetime values
Before(a, b) ==
    \/ a.year < b.year
    \/ a.year = b.year /\ a.month < b.month
    \/ a.year = b.year /\ a.month = b.month /\ a.day < b.day
MaxDate(a, b) == IF Before(a, b) THEN b ELSE a
MinDate(a, b) == IF Before(b, a) THEN b ELSE a

\* dt + timedelta(days=1)
AddDay(dt) ==
    IF dt.day < monthrange(dt.year, dt.month) THEN Date(dt.year, dt.month, dt.day + 1)
    ELSE IF dt.month < 12 THEN Date(dt.year, dt.month + 1, 1)
    ELSE Date(dt.year + 1, 1, 1)

\* line 104: current_date.replace(day=1)
MonthStart(cur) == Date(cur.year, cur.month, 1)
\* lines 103 and 105: current_date.replace(day=last_day)
MonthEnd(cur) == Date(cur.year, cur.month, monthrange(cur.year, cur.month))

\* faulty variant: the window starts with its month
IntervaloStart_month(start, cur) == MonthStart(cur)
\* line 106: intervalo_start = max(start_date, month_start)
IntervaloStart(start, cur) == MaxDate(start, MonthStart(cur))

\* faulty variant: the window runs to the end of the general period
IntervaloEnd_global(end, cur) == end
\* line 107: intervalo_end = min(end_date, month_end)
IntervaloEnd(end, cur) == MinDate(end, MonthEnd(cur))

\* the k-th month of the span, counted from 0
SpanMonth(k) ==
    LET n == FirstMonth.month - 1 + k
    IN [year |-> FirstMonth.year + n \div 12, month |-> (n % 12) + 1]
\* the date strings ask_date accepts within the span
DateStrs ==
    UNION {{strftime(Date(SpanMonth(k).year, SpanMonth(k).month, d)) :
                d \in 1..monthrange(SpanMonth(k).year, SpanMonth(k).month)} :
            k \in 0..(MaxSpanMonths - 1)}

NoDate == Date(0, 0, 0)

SplitIdle ==
    /\ start_date = NoDate
    /\ end_date = NoDate
    /\ current_date = NoDate
    /\ intervalos = <<>>
    /\ spc = "idle"

-----------------------------------------------------------------------------
(* The month loop: exceptions and the handlers that confine them           *)

\* what a unit of work can raise: requests.HTTPError from raise_for_status,
\* requests.ConnectionError from the adapter, ValueError from the JSON decoder
ErrKinds == {"HTTPError", "ConnectionError", "ValueError"}
FirstKind == "HTTPError"

\* faulty variant: the handler names requests.HTTPError only
Caught_http(err) == err = "HTTPError"
\* lines 346, 335 and 409: except Exception
Caught(err) == err \in ErrKinds

\* what the server does to one modality of a window: page 1 answers or not,
\* the number of pages, the pages that fail and the error they fail with
ModalidadeStates ==
    {[disc |-> FALSE, total |-> 1, failed |-> {}, err |-> e] : e \in ErrKinds}
    \cup {[disc |-> TRUE, total |-> t, failed |-> {}, err |-> FirstKind] : t \in 1..MaxPages}
    \cup UNION {{[disc |-> TRUE, total |-> t, failed |-> f, err |-> e] :
                    f \in (SUBSET SubmitPages(t)) \ {{}}, e \in ErrKinds} :
                 t \in 2..MaxPages}
RunServerStates == [DOMAIN Modalidades -> ModalidadeStates]

\* lines 342-347: the first loop of fetch_contratacoes_multi_modalidade
Discover(srv) ==
    LET d[i \in 0..Len(Modalidades)] ==
            IF i = 0 THEN [raised |-> FALSE, discovered |-> <<>>, tentadas |-> {}]
            ELSE IF d[i - 1].raised THEN d[i - 1]
            ELSE IF srv[i].disc
                 THEN [raised |-> FALSE,
                       discovered |-> Append(d[i - 1].discovered, i),
                       tentadas |-> d[i - 1].tentadas \cup {i}]
                 ELSE [raised |-> ~Caught(srv[i].err),
                       discovered |-> d[i - 1].discovered,
                       tentadas |-> d[i - 1].tentadas \cup {i}]
    IN d[Len(Modalidades)]

\* lines 322-337: the pages 2.. of one modality, a failed page caught or raised
\* (as_completed's order is taken to be the order of the pages)
OtherPages(srv, i) ==
    IF \E pg \in srv[i].failed : ~Caught(srv[i].err)
    THEN [raised |-> TRUE, results |-> <<>>]
    ELSE [raised |-> FALSE,
          results |-> PageRecords(Modalidades[i], SubmitPages(srv[i].total) \ srv[i].failed)]

\* lines 339-354: fetch_contratacoes_multi_modalidade
FetchContratacoes(srv) ==
    LET disc == Discover(srv)
        n == Len(disc.discovered)
        acc[k \in 0..n] ==
            IF k = 0 THEN [raised |-> disc.raised, all |-> <<>>]
            ELSE IF acc[k - 1].raised THEN acc[k - 1]
            ELSE LET i == disc.discovered[k]
                     outras == OtherPages(srv, i)
                 IN [raised |-> outras.raised,
                     all |-> acc[k - 1].all \o Data(Modalidades[i], 1) \o outras.results]
    IN [raised |-> acc[n].raised, all |-> acc[n].all, tentadas |-> disc.tentadas,
        descobertas |-> {disc.discovered[k] : k \in 1..n}]

\* lines 557-595: the ids of the month, each once, in order of first appearance
RECURSIVE UniqueIds(_, _)
UniqueIds(recs, ids) ==
    IF recs = <<>> THEN ids
    ELSE UniqueIds(Tail(recs),
                   IF \E k \in DOMAIN ids : ids[k] = Head(recs) THEN ids
                   ELSE Append(ids, Head(recs)))

\* lines 387-411: fetch_itens_para_ids, one item per id, the ids in bad fail
RECURSIVE FetchItens(_, _, _)
FetchItens(ids, bad, err) ==
    IF ids = <<>> THEN [raised |-> FALSE, encontrados |-> <<>>]
    ELSE LET rest == FetchItens(Tail(ids), bad, err)
         IN IF Head(ids) \in bad
            THEN [raised |-> rest.raised \/ ~Caught(err), encontrados |-> rest.encontrados]
            ELSE [raised |-> rest.raised,
                  encontrados |-> <<[id_pncp |-> Head(ids), Numero |-> 1]>> \o rest.encontrados]

NoFalhas == [disc |-> FALSE, page |-> FALSE, itens |-> FALSE]

RunIdle ==
    /\ run_i = 0
    /\ rpc = "idle"
    /\ contratacoes_mes = <<>>
    /\ itens_brutos_mes = <<>>
    /\ dados_para_json_mes = {}
    /\ unificado_sections = 0
    /\ tentadas = {}
    /\ descobertas = {}
    /\ falhas = NoFalhas

-----------------------------------------------------------------------------
(* src/database.py: the fornecedor table                                   *)

\* the nomes the callers pass
Nomes == {"JIIJ", "ACME"}
\* most rows of fornecedor
MaxFornecedores == 3
\* threads that use the scoped session
DbThreads == {1, 2}

\* one_or_none() raises MultipleResultsFound when the query matches two rows
MultipleResultsFound == -1

\* the ids of the rows with this nome
IdsOf(tbl, nome) == {i \in DOMAIN tbl : tbl[i] = nome}

\* line 543: .one_or_none() -- the row, None (0) or an exception
one_or_none(ids) ==
    IF ids = {} THEN 0
    ELSE IF Cardinality(ids) = 1 THEN CHOOSE i \in ids : TRUE
    ELSE MultipleResultsFound

GocIdle == [pc |-> "idle", nome |-> ""]
NoGoc == [done |-> FALSE, nome |-> "", existing |-> {}, ret |-> 0, inserted |-> FALSE]

FornIdle ==
    /\ fornecedor = <<>>
    /\ goc = [t \in DbThreads |-> GocIdle]
    /\ last_goc = NoGoc

-----------------------------------------------------------------------------
(* src/database.py: format_currency and parse_currency                     *)

\* the values of valor_centavos tried: every integer up to this in size,
\* and some larger ones that need thousands separators
MaxCentavos == 250
LargeCentavos == {69010, 123456, 100000, 123456789, -123456, -100000}

\* str(n) for n >= 0
RECURSIVE DecDigits(_)
DecDigits(n) ==
    IF n < 10 THEN <<DigitChar(n)>> ELSE Append(DecDigits(n \div 10), DigitChar(n % 10))

\* f"{n:,}" of digits: a separator before every group of three from the right
RECURSIVE Grouped(_, _)
Grouped(digits, sep) ==
    IF Len(digits) <= 3 THEN digits
    ELSE Grouped(SubSeq(digits, 1, Len(digits) - 3), sep) \o <<sep>>
         \o SubSeq(digits, Len(digits) - 2, Len(digits))

\* f"{reais:,}" for any integer
FormatThousands(n) ==
    IF n < 0 THEN <<"-">> \o Grouped(DecDigits(-n), ",") ELSE Grouped(DecDigits(n), ",")

\* str.replace(old, new)
RECURSIVE Replace(_, _, _)
Replace(str, old, new) ==
    IF Len(str) < Len(old) THEN str
    ELSE IF SubSeq(str, 1, Len(old)) = old
         THEN new \o Replace(SubSeq(str, Len(old) + 1, Len(str)), old, new)
         ELSE <<Head(str)>> \o Replace(Tail(str), old, new)

\* f"{cent:02d}"
TwoDigits(c) == IF c < 10 THEN <<"0", DigitChar(c)>> ELSE DecDigits(c)

\* lines 210-213: format_currency; divmod rounds the quotient down
format_currency(v) ==
    LET valor_centavos == IF v.none THEN 0 ELSE v.n
        reais == valor_centavos \div 100
        cent == valor_centavos % 100
        reais_str == Replace(FormatThousands(reais), <<",">>, <<".">>)
    IN <<"R", "$", " ">> \o reais_str \o <<",">> \o TwoDigits(cent)

DigitValue(ch) == CHOOSE d \in 0..9 : DigitChar(d) = ch
IsDigit(ch) == \E d \in 0..9 : DigitChar(d) = ch

RECURSIVE DigitsValue(_)
DigitsValue(str) ==
    IF str = <<>> THEN 0 ELSE DigitsValue(SubSeq(str, 1, Len(str) - 1)) * 10 + DigitValue(str[Len(str)])

\* int(Decimal(clean) * 100) for a text of the shape [-]digits[.digits];
\* any other text makes Decimal raise InvalidOperation (line 235: ValueError)
DecimalTimes100(clean) ==
    LET neg == clean # <<>> /\ Head(clean) = "-"
        body == IF neg THEN Tail(clean) ELSE clean
        parts == Split(body, ".")
        whole == parts[1]
        frac == IF Len(parts) = 2 THEN parts[2] ELSE <<>>
        wellFormed == /\ Len(parts) <= 2
                      /\ whole \o frac # <<>>
                      /\ \A i \in DOMAIN whole : IsDigit(whole[i])
                      /\ \A i \in DOMAIN frac : IsDigit(frac[i])
        frac2 == SubSeq(frac \o <<"0", "0">>, 1, 2)
        mag == DigitsValue(whole) * 100 + DigitsValue(frac2)
    IN IF wellFormed THEN [raised |-> FALSE, n |-> IF neg THEN -mag ELSE mag]
       ELSE [raised |-> TRUE, n |-> 0]

\* lines 225-238: parse_currency (strip() has nothing left to remove once
\* the blanks are gone)
parse_currency(txt) ==
    LET clean == Replace(Replace(Replace(Replace(txt, <<"R", "$">>, <<>>),
                                         <<" ">>, <<>>),
                                 <<".">>, <<>>),
                         <<",">>, <<".">>)
    IN IF clean = <<>> THEN [raised |-> FALSE, n |-> 0] ELSE DecimalTimes100(clean)

\* texts handed to parse_currency that format_currency did not write
ExampleTexts == {<<"R", "$", " ", "1", ".", "2", "3", "4", ",", "5", "6">>,
                 <<"0">>, <<>>,
                 <<"1", "2", "3", "4", ",", "5">>,
                 <<"1", "2", "x">>}

NoValor == [none |-> TRUE, n |-> 0]
NoCentavos == [raised |-> FALSE, n |-> 0]

CurrencyIdle ==
    /\ valor = NoValor
    /\ texto = <<>>
    /\ centavos = NoCentavos
    /\ upc = "idle"

-----------------------------------------------------------------------------
(* src/pncp.py lines 366-385: the normalisation of one item                *)

\* largest number an upstream field holds
MaxNumero == 3

\* a JSON value under a key: the key is missing, or it holds null, a number
\* or a string
JMissing == [kind |-> "missing", n |-> 0]
JNull == [kind |-> "null", n |-> 0]
JStr == [kind |-> "str", n |-> 0]
JNum(n) == [kind |-> "num", n |-> n]
JValues == {JMissing, JNull, JStr} \cup {JNum(n) : n \in 0..MaxNumero}

\* it.get(key): None for a missing key
Get(v) == IF v.kind = "missing" THEN JNull ELSE v
\* it.get(key, default)
GetDefault(v, default) == IF v.kind = "missing" THEN default ELSE v
\* isinstance(v, (int, float))
IsNumber(v) == v.kind = "num"

\* line 370: vu = it.get("valorUnitarioEstimado", it.get("valorEstimado"))
UnitValue(item) == GetDefault(item.valorUnitarioEstimado, Get(item.valorEstimado))

\* faulty variant: the total is recomputed whenever it can be
ValorTotal_recomputed(vt, qtd, vu) ==
    IF IsNumber(qtd) /\ IsNumber(vu) THEN JNum(qtd.n * vu.n) ELSE vt
\* lines 371-373: vt = qtd * vu when vt is None and both are numbers
ValorTotal(vt, qtd, vu) ==
    IF vt.kind = "null" /\ IsNumber(qtd) /\ IsNumber(vu) THEN JNum(qtd.n * vu.n) ELSE vt

\* lines 366-383: the dict appended to out for one upstream item
NormalizeItem(item) ==
    LET qtd == Get(item.quantidade)
        vu == UnitValue(item)
        vt == Get(item.valorTotalEstimado)
    IN [Quantidade |-> qtd,
        Valor_unitario_estimado |-> vu,
        Valor_total_estimado |-> ValorTotal(vt, qtd, vu)]

NoItem == [quantidade |-> JMissing, valorUnitarioEstimado |-> JMissing,
           valorEstimado |-> JMissing, valorTotalEstimado |-> JMissing]

ItemIdle ==
    /\ it_pncp = NoItem
    /\ out_itens = <<>>
    /\ tpc = "idle"

-----------------------------------------------------------------------------
(* src/database.py: the ata and ata_item tables and their triggers         *)

\* highest ata id handed out
MaxAtaId == 3
\* longest "itens" list of a dto
MaxItens == 2

Numeros == {"1000/2024", "1001/2024"}
\* a dto without the key "numero"
NoNumero == ""

\* the items a caller passes: two that satisfy the CHECK constraints of
\* lines 137-140, one with quantidade 0 and one with a negative unit value
ItemInputs ==
    {[quantidade |-> 1, valor_unit_centavos |-> 1000],
     [quantidade |-> 2, valor_unit_centavos |-> 250],
     [quantidade |-> 0, valor_unit_centavos |-> 1000],
     [quantidade |-> 1, valor_unit_centavos |-> -1]}
ItensLists == SeqsUpTo(ItemInputs, MaxItens)

\* the dto of update_ata: "numero" and "itens" are each there or not
Dtos ==
    {[numero |-> n, has_itens |-> FALSE, itens |-> <<>>] : n \in Numeros \cup {NoNumero}}
    \cup {[numero |-> n, has_itens |-> TRUE, itens |-> l] :
            n \in Numeros \cup {NoNumero}, l \in ItensLists}

\* line 131-133: subtotal_centavos, Computed("quantidade * valor_unit_centavos")
subtotal_centavos(row) == row.quantidade * row.valor_unit_centavos

RECURSIVE SumRows(_, _)
SumRows(rows, tbl) ==
    IF rows = {} THEN 0
    ELSE LET it1 == CHOOSE x \in rows : TRUE
         IN CopiesIn(it1, tbl) * subtotal_centavos(it1) + SumRows(rows \ {it1}, tbl)

\* SELECT COALESCE(SUM(subtotal_centavos),0) FROM ata_item WHERE ata_id=...
SumSubtotals(tbl, ata_id) ==
    SumRows({row \in BagToSet(tbl) : row.ata_id = ata_id}, tbl)

\* UPDATE ata SET valor_total_centavos = (...) WHERE id=...
RecomputeTotal(db, ata_id) ==
    [db EXCEPT !.ata =
        {IF a.id = ata_id
         THEN [a EXCEPT !.valor_total_centavos = SumSubtotals(db.ata_item, ata_id)]
         ELSE a : a \in db.ata}]

\* lines 306-314: trigger ata_item_ai, AFTER INSERT ON ata_item
ata_item_ai(db, new) == RecomputeTotal(db, new.ata_id)

\* faulty variant: no trigger runs after a delete
ata_item_ad_none(db, old) == db
\* lines 328-336: trigger ata_item_ad, AFTER DELETE ON ata_item
ata_item_ad(db, old) == RecomputeTotal(db, old.ata_id)

Raise(db) == [db EXCEPT !.err = TRUE]

\* INSERT INTO ata_item: the CHECK constraints, the foreign key, the trigger
InsertItem(db, row) ==
    IF \/ ~(row.quantidade > 0)
       \/ ~(row.valor_unit_centavos >= 0)
       \/ ~(\E a \in db.ata : a.id = row.ata_id)
    THEN Raise(db)
    ELSE ata_item_ai([db EXCEPT !.ata_item = @ (+) SetToBag({row})], row)

\* DELETE FROM ata_item of one row, and the trigger
DeleteItem(db, row) ==
    ata_item_ad([db EXCEPT !.ata_item = @ (-) SetToBag({row})], row)

\* the AtaItem rows the session adds for a list of items
RECURSIVE InsertItens(_, _, _)
InsertItens(db, ata_id, itens) ==
    IF db.err \/ itens = <<>> THEN db
    ELSE InsertItens(InsertItem(db, [ata_id |-> ata_id,
                                     quantidade |-> Head(itens).quantidade,
                                     valor_unit_centavos |-> Head(itens).valor_unit_centavos]),
                     ata_id, Tail(itens))

\* DELETE FROM ata_item WHERE ata_id=..., row by row
RECURSIVE DeleteItensOf(_, _)
DeleteItensOf(db, ata_id) ==
    IF \A row \in BagToSet(db.ata_item) : row.ata_id # ata_id THEN db
    ELSE LET it1 == CHOOSE x \in BagToSet(db.ata_item) : x.ata_id = ata_id
         IN DeleteItensOf(DeleteItem(db, it1), ata_id)

\* INSERT INTO ata: numero is unique, valor_total_centavos defaults to 0
InsertAta(db, id, numero) ==
    IF \E a \in db.ata : a.numero = numero THEN Raise(db)
    ELSE [db EXCEPT !.ata = @ \cup {[id |-> id, numero |-> numero,
                                     valor_total_centavos |-> 0]}]

\* UPDATE ata SET numero=... WHERE id=...
SetNumero(db, id, numero) ==
    IF \E a \in db.ata : a.id # id /\ a.numero = numero THEN Raise(db)
    ELSE [db EXCEPT !.ata = {IF a.id = id THEN [a EXCEPT !.numero = numero] ELSE a :
                                a \in db.ata}]

\* the id SQLite gives the next row of ata
NextAtaId(rows) ==
    IF rows = {} THEN 1
    ELSE (CHOOSE i \in {a.id : a \in rows} : \A a \in rows : a.id <= i) + 1

\* session.commit(), or the rollback when a statement raised
Committed(before, after) == IF after.err THEN before ELSE after

NoOp == [op |-> "none", raised |-> "none"]
EmptyDb == [ata |-> {}, ata_item |-> EmptyBag, err |-> FALSE]
\* lines 485-500: an ata of _seed with its "Item exemplo"
SeedDb == InsertItem(InsertAta(EmptyDb, 1, "1000/2024"),
                     [ata_id |-> 1, quantidade |-> 1, valor_unit_centavos |-> 1000])

AtaIdle ==
    /\ ata = {}
    /\ ata_item = EmptyBag
    /\ last_op = NoOp

-----------------------------------------------------------------------------
(* src/database.py: calcular_situacao, the view v_ata_situacao, fetch_atas *)

\* a day has this many ticks (of three hours)
TicksPerDay == 8
\* latest data_fim, in days from day 0 of the clock
MaxDiasAdiante == 62
\* the clock runs over this many days
MaxDiasRelogio == 2

\* no row 'dias_alerta_vencimento' in config
NoConfig == -1
\* lines 294 and 651: COALESCE(..., 60) and get_param(..., "60")
DiasAlertaDefault == 60

\* date('now'): the UTC date
DateNowUtc(now) == now \div TicksPerDay
\* date.today(): the local date
DateToday(now, tz) == (now - tz) \div TicksPerDay

\* julianday(a.data_fim) - julianday('now'), in ticks: data_fim is read as
\* midnight UTC of that day
JulianDiff(fim, now) == fim * TicksPerDay - now

\* lines 289-299: the CASE of v_ata_situacao
v_ata_situacao(fim, now, cfg) ==
    LET alerta == IF cfg # NoConfig THEN cfg ELSE DiasAlertaDefault
    IN IF fim < DateNowUtc(now) THEN "vencida"
       ELSE IF /\ JulianDiff(fim, now) <= alerta * TicksPerDay
               /\ JulianDiff(fim, now) >= 0
       THEN "a vencer"
       ELSE "vigente"

\* lines 245-252
calcular_situacao(fim, dias_alerta, hoje) ==
    IF fim < hoje THEN "vencida"
    ELSE LET delta == fim - hoje
         IN IF 0 <= delta /\ delta <= dias_alerta THEN "a vencer" ELSE "vigente"

\* lines 255-256: pretty_situacao
pretty_situacao(s) ==
    CASE s = "vencida" -> "Vencida"
      [] s = "a vencer" -> "A Vencer"
      [] s = "vigente" -> "Vigente"

\* lines 651-659: the "situacao" of the dict of _ata_to_dict
AtaDictSituacao(fim, now, tz, cfg) ==
    LET dias_alerta == IF cfg # NoConfig THEN cfg ELSE DiasAlertaDefault
    IN pretty_situacao(calcular_situacao(fim, dias_alerta, DateToday(now, tz)))

\* lines 743-747: the list a row goes to
ListKey(situacao) ==
    CASE situacao = "vigente" -> "vigentes"
      [] situacao = "vencida" -> "vencidas"
      [] situacao = "a vencer" -> "aVencer"

NoLists == [vigentes |-> <<>>, vencidas |-> <<>>, aVencer |-> <<>>]

SituacaoIdle ==
    /\ data_fim = 0
    /\ agora = 0
    /\ fuso = 0
    /\ dias_alerta_vencimento = NoConfig
    /\ view_situacao = ""
    /\ res_atas = NoLists
    /\ qpc = "idle"

CallsIdle ==
    /\ first_fetch = [w \in Windows |-> NotFetched]
    /\ last_fetch = NoFetch

XIdle ==
    /\ CallsIdle
    /\ ItensIdle
    /\ SplitIdle
    /\ RunIdle
    /\ FornIdle
    /\ CurrencyIdle
    /\ ItemIdle
    /\ AtaIdle
    /\ SituacaoIdle

GetIdle ==
    /\ max_retries = DEFAULT_MAX_RETRIES
    /\ attempt = 0
    /\ gpc = "idle"
    /\ adapter_total = ADAPTER_RETRY_total
    /\ adapter_errs = 0
    /\ get_calls = 0
    /\ wire_count = 0
    /\ gwb_sleeps = 0
    /\ last_sleep = NoSleep
    /\ seen = [c429 |-> 0, c5xx |-> 0]
    /\ all503 = TRUE
    /\ r = [status |-> 0, ra |-> NoHeader]
    /\ delivered = 0
    /\ result = NoResult

FetchIdle ==
    /\ PAGE_SIZE_CANDIDATES = <<50>>
    /\ PAGE_SIZE_CACHE = <<>>
    /\ month = 1
    /\ mpc = "idle"
    /\ mi = 1
    /\ di = 1
    /\ discovered = <<>>
    /\ all_contratacoes = <<>>
    /\ results = <<>>
    /\ fp = [t \in Threads |-> IdleCall]
    /\ collected = {}
    /\ submitted = [p \in PageWorkers |-> 0]
    /\ negotiations = [k \in Keys |-> 0]
    /\ failed_pages = {}

-----------------------------------------------------------------------------
(* SpecGet                                                                 *)

InitGet ==
    /\ max_retries \in MaxRetriesValues
    /\ attempt = 0
    /\ gpc = "get"
    /\ adapter_total = ADAPTER_RETRY_total
    /\ adapter_errs = 0
    /\ get_calls = 0
    /\ wire_count = 0
    /\ gwb_sleeps = 0
    /\ last_sleep = NoSleep
    /\ seen = [c429 |-> 0, c5xx |-> 0]
    /\ all503 = TRUE
    /\ r = [status |-> 0, ra |-> NoHeader]
    /\ delivered = 0
    /\ result = NoResult
    /\ FetchIdle
    /\ XIdle

\* values the adapter starts a session.get call with
EnterTotal == IF gpc = "get" THEN ADAPTER_RETRY_total ELSE adapter_total
EnterErrs == IF gpc = "get" THEN 0 ELSE adapter_errs
EnterCalls == IF gpc = "get" THEN get_calls + 1 ELSE get_calls

\* lines 171-186: what get_with_backoff does with the response r of session.get
HandleResponse(status, ra) ==
    /\ r' = [status |-> status, ra |-> ra]
    /\ delivered' = delivered + 1
    /\ get_calls' = EnterCalls
    /\ adapter_total' = EnterTotal
    /\ adapter_errs' = EnterErrs
    /\ IF Is2xx(status)
       THEN /\ gpc' = "returned"
            /\ result' = [kind |-> "response", status |-> status]
            /\ UNCHANGED <<attempt, gwb_sleeps, last_sleep, seen>>
       ELSE IF IsRetryStatus(status)
       THEN /\ attempt' = attempt + 1
            /\ seen' = IF status = 429 THEN [seen EXCEPT !.c429 = @ + 1]
                                       ELSE [seen EXCEPT !.c5xx = @ + 1]
            /\ IF BudgetExhausted(attempt + 1, max_retries)
               THEN /\ gpc' = "raised"
                    /\ result' = [kind |-> "HTTPError", status |-> status]
                    /\ UNCHANGED <<gwb_sleeps, last_sleep>>
               ELSE /\ gpc' = "get"
                    /\ gwb_sleeps' = gwb_sleeps + 1
                    /\ last_sleep' = [by |-> "get_with_backoff", status |-> status, ra |-> ra,
                                      wait |-> Wait(attempt + 1), attempt |-> attempt + 1]
                    /\ UNCHANGED result
       ELSE /\ gpc' = "raised"
            /\ result' = [kind |-> "HTTPError", status |-> status]
            /\ UNCHANGED <<attempt, gwb_sleeps, last_sleep, seen>>

\* the server answers the request on the wire with a status (and maybe Retry-After)
WireAnswer(status, ra) ==
    /\ gpc \in {"get", "urlopen"}
    /\ wire_count' = wire_count + 1
    /\ all503' = (all503 /\ status = 503)
    /\ UNCHANGED max_retries
    /\ IF AdapterIsRetry(status, ra, EnterTotal)
       THEN IF EnterTotal - 1 < 0
            THEN \* Retry exhausted: MaxRetryError -> requests.RetryError, uncaught
                 /\ gpc' = "raised"
                 /\ result' = [kind |-> "RetryError", status |-> status]
                 /\ get_calls' = EnterCalls
                 /\ adapter_total' = EnterTotal - 1
                 /\ adapter_errs' = EnterErrs + 1
                 /\ UNCHANGED <<attempt, gwb_sleeps, last_sleep, seen, r, delivered>>
            ELSE \* the adapter sleeps and sends the request again
                 /\ gpc' = "urlopen"
                 /\ get_calls' = EnterCalls
                 /\ adapter_total' = EnterTotal - 1
                 /\ adapter_errs' = EnterErrs + 1
                 /\ last_sleep' = [by |-> "adapter", status |-> status, ra |-> ra,
                                   wait |-> AdapterSleep(ra, EnterErrs + 1), attempt |-> attempt]
                 /\ UNCHANGED <<attempt, gwb_sleeps, seen, r, delivered, result>>
       ELSE HandleResponse(status, ra)

\* the request fails below HTTP: timeout, connection reset
WireFails ==
    /\ gpc \in {"get", "urlopen"}
    /\ wire_count' = wire_count + 1
    /\ all503' = FALSE
    /\ get_calls' = EnterCalls
    /\ adapter_total' = EnterTotal - 1
    /\ adapter_errs' = EnterErrs + 1
    /\ UNCHANGED <<max_retries, attempt, gwb_sleeps, seen, r, delivered>>
    /\ IF EnterTotal - 1 < 0
       THEN \* MaxRetryError -> requests.ConnectionError, not caught by get_with_backoff
            /\ gpc' = "raised"
            /\ result' = [kind |-> "ConnectionError", status |-> 0]
            /\ UNCHANGED last_sleep
       ELSE /\ gpc' = "urlopen"
            /\ last_sleep' = [by |-> "adapter", status |-> 0, ra |-> NoHeader,
                              wait |-> AdapterBackoff(EnterErrs + 1), attempt |-> attempt]
            /\ UNCHANGED result

NextGet ==
    \/ \E status \in Statuses, ra \in RetryAfterValues :
            WireAnswer(status, ra) /\ UNCHANGED <<fvars, xvars>>
    \/ WireFails /\ UNCHANGED <<fvars, xvars>>

SpecGet == InitGet /\ [][NextGet]_vars
FairSpecGet == SpecGet /\ WF_vars(NextGet)

-----------------------------------------------------------------------------
(* Properties of get_with_backoff                                          *)

Retryable == seen.c429 + seen.c5xx

\* C1: with max_retries = N, a call against a server that answers every
\* request with 503 raises after exactly N+1 request attempts with N backoff
\* sleeps of get_with_backoff in between.
C1_Always503RaisesAfterNPlus1 ==
    (gpc = "raised" /\ all503 /\ wire_count > 0)
        => (wire_count = max_retries + 1 /\ gwb_sleeps = max_retries)

\* C2: a response that is not 2xx, not 429 and not 5xx makes get_with_backoff
\* raise in the same step, without a sleep; once the call has raised, no
\* request and no sleep follows, whatever is left of the retry budget.
C2_ClientErrorRaisesImmediately ==
    [][ /\ (delivered' = delivered + 1 /\ ~Is2xx(r'.status) /\ r'.status # 429
                /\ ~(500 <= r'.status /\ r'.status < 600))
            => (gpc' = "raised" /\ result' = [kind |-> "HTTPError", status |-> r'.status]
                    /\ gwb_sleeps' = gwb_sleeps /\ last_sleep' = last_sleep)
        /\ gpc = "raised"
            => (wire_count' = wire_count /\ get_calls' = get_calls /\ gwb_sleeps' = gwb_sleeps)
      ]_vars

C2_Witness ==
    /\ gpc = "raised" /\ r.status = 404 /\ result.kind = "HTTPError"
    /\ max_retries = DEFAULT_MAX_RETRIES /\ attempt = 1 /\ gwb_sleeps = 1

\* C3: 429 and 5xx responses draw on one budget.  With k the number of 429/5xx
\* responses get_with_backoff received: a call that returned made k+1
\* session.get calls and k sleeps, k <= max_retries; a call that received
\* max_retries+1 of them raised, after max_retries+1 calls and max_retries
\* sleeps; no call makes more than max_retries+1 session.get calls.
C3_SharedRetryBudget ==
    /\ get_calls <= max_retries + 1
    /\ Retryable <= max_retries + 1
    /\ gpc = "returned"
         => (Is2xx(r.status) /\ Retryable <= max_retries
                /\ get_calls = Retryable + 1 /\ gwb_sleeps = Retryable)
    /\ Retryable = max_retries + 1
         => (gpc = "raised" /\ result.kind = "HTTPError"
                /\ get_calls = max_retries + 1 /\ gwb_sleeps = max_retries)
    /\ (gpc = "raised" /\ result.kind = "HTTPError"
            /\ (result.status = 429 \/ (500 <= result.status /\ result.status < 600)))
         => Retryable = max_retries + 1
    /\ (gpc \in {"get", "urlopen"} /\ Retryable > 0) => gwb_sleeps = Retryable

C3_Witness ==
    /\ gpc = "returned" /\ seen.c429 = 1 /\ seen.c5xx = 2
    /\ get_calls = 4 /\ gwb_sleeps = 3

C3_WitnessExhausted ==
    /\ gpc = "raised" /\ seen.c429 >= 1 /\ seen.c5xx >= 1
    /\ Retryable = max_retries + 1 /\ max_retries = DEFAULT_MAX_RETRIES

\* C4: a transport-level failure is retried like a 5xx, so a call that ends
\* with the transport error has used up the retry budget: at least
\* max_retries+1 requests were tried before the error reached the caller.
C4_TransportFailureRetriedLike5xx ==
    (gpc = "raised" /\ result.kind = "ConnectionError")
        => wire_count >= max_retries + 1

\* C5: the sleep of get_with_backoff after a 429 is the standard backoff of
\* that attempt, plus the Retry-After seconds when the response carries the
\* header (the modelled header values are below any ceiling).
C5_RetryAfterHonoured ==
    (last_sleep.by = "get_with_backoff" /\ last_sleep.status = 429)
        => IF last_sleep.ra # NoHeader
           THEN last_sleep.wait >= last_sleep.ra * Second + Wait(last_sleep.attempt)
           ELSE last_sleep.wait = Wait(last_sleep.attempt)

\* lines 166-186: get_with_backoff goes straight from the loop head to
\* session.get; the rate-limiter tokens it has taken before its requests
TokensAcquired == 0

\* C15: every outbound request is sent only after a rate-limiter token was
\* acquired for it, so the requests sent never outnumber the tokens taken.
C15_RequestOnlyAfterToken ==
    get_calls <= TokensAcquired


-----------------------------------------------------------------------------
(* SpecFetch: the month loop, fetch_contratacoes_multi_modalidade,         *)
(* fetch_page_with_pagesize and fetch_all_pages_for_modalidade             *)

InitFetch ==
    /\ GetIdle
    /\ XIdle
    /\ PAGE_SIZE_CANDIDATES \in CandidateLists
    /\ PAGE_SIZE_CACHE = <<>>
    /\ month = 1
    /\ mpc = "month"
    /\ mi = 1
    /\ di = 1
    /\ discovered = <<>>
    /\ all_contratacoes = <<>>
    /\ results = <<>>
    /\ fp = [t \in Threads |-> IdleCall]
    /\ collected = {}
    /\ submitted = [p \in PageWorkers |-> 0]
    /\ negotiations = [k \in Keys |-> 0]
    /\ failed_pages = {}

Running == {t \in PageWorkers : fp[t].st \in {"check", "cached", "candidate"}}

\* lines 341-342: a month's fetch_contratacoes_multi_modalidade call begins
MonthFetch ==
    /\ mpc = "month"
    /\ mpc' = "discover"
    /\ mi' = 1
    /\ di' = 1
    /\ discovered' = <<>>
    /\ all_contratacoes' = <<>>
    /\ failed_pages' = {}
    /\ UNCHANGED <<PAGE_SIZE_CANDIDATES, PAGE_SIZE_CACHE, month, results, fp, collected,
                   submitted, negotiations>>

\* lines 343-345, 315: the main thread calls fetch_page_with_pagesize for page 1
DiscoverCall ==
    /\ mpc = "discover"
    /\ mi <= Len(Modalidades)
    /\ mpc' = "discovering"
    /\ fp' = [fp EXCEPT ![MainThread] = NewCall("check", Modalidades[mi], 1)]
    /\ UNCHANGED <<PAGE_SIZE_CANDIDATES, PAGE_SIZE_CACHE, month, mi, di, discovered,
                   all_contratacoes, results, collected, submitted, negotiations,
                   failed_pages>>

\* faulty variant: the lookup never finds the key
InCache_never(key) == FALSE
\* line 286: if key in PAGE_SIZE_CACHE
InCache(key) == key \in DOMAIN PAGE_SIZE_CACHE

\* lines 286-287 and 293-294: the cache lookup that picks the path of the call
CheckCache(t) ==
    /\ fp[t].st = "check"
    /\ IF InCache(Key(fp[t].m))
       THEN /\ fp' = [fp EXCEPT ![t].st = "cached", ![t].path = "cached",
                                ![t].ps = PAGE_SIZE_CACHE[Key(fp[t].m)]]
            /\ UNCHANGED negotiations
       ELSE /\ negotiations' = [negotiations EXCEPT ![Key(fp[t].m)] = @ + 1]
            /\ IF Len(PAGE_SIZE_CANDIDATES) = 0
               THEN fp' = [fp EXCEPT ![t].st = "failed", ![t].path = "negotiate"]
               ELSE fp' = [fp EXCEPT ![t].st = "candidate", ![t].path = "negotiate",
                                     ![t].ci = 1, ![t].ps = PAGE_SIZE_CANDIDATES[1]]
    /\ UNCHANGED <<PAGE_SIZE_CANDIDATES, PAGE_SIZE_CACHE, month, mpc, mi, di, discovered,
                   all_contratacoes, results, collected, submitted, failed_pages>>

\* lines 288-291: the single request of a call that found its key in the cache
RequestCached(t, out) ==
    /\ fp[t].st = "cached"
    /\ fp' = [fp EXCEPT
                ![t].sent = Append(@, TamanhoPagina(fp[t].ps)),
                ![t].st = IF out.kind = "ok" THEN "ok" ELSE "failed",
                ![t].env = out.env,
                ![t].data = IF out.kind = "ok" THEN Data(fp[t].m, fp[t].pagina) ELSE <<>>]
    /\ UNCHANGED <<PAGE_SIZE_CANDIDATES, PAGE_SIZE_CACHE, month, mpc, mi, di, discovered,
                   all_contratacoes, results, collected, submitted, negotiations,
                   failed_pages>>

\* faulty variant: the loop stops one candidate short
HasMoreCandidates_short(ci) == ci < Len(PAGE_SIZE_CANDIDATES) - 1
\* line 294: for ps in PAGE_SIZE_CANDIDATES -- is there a candidate after ci?
HasMoreCandidates(ci) == ci < Len(PAGE_SIZE_CANDIDATES)

\* lines 294-311: the request for candidate ci and what follows from its outcome
RequestCandidate(t, out) ==
    /\ fp[t].st = "candidate"
    /\ LET call == [fp[t] EXCEPT !.sent = Append(@, TamanhoPagina(fp[t].ps))]
       IN IF out.kind = "ok"
          THEN /\ PAGE_SIZE_CACHE' = CacheStore(PAGE_SIZE_CACHE, Key(call.m), call.ps)
               /\ fp' = [fp EXCEPT ![t] = [call EXCEPT !.st = "ok", !.env = out.env,
                                              !.data = Data(call.m, call.pagina)]]
          ELSE IF out.kind = "HTTPError" /\ IsSizeError(out.err)
          THEN /\ UNCHANGED PAGE_SIZE_CACHE
               /\ IF HasMoreCandidates(call.ci)
                  THEN fp' = [fp EXCEPT ![t] =
                                [call EXCEPT !.rejected = Append(@, out.err),
                                             !.ci = @ + 1,
                                             !.ps = PAGE_SIZE_CANDIDATES[call.ci + 1]]]
                  ELSE fp' = [fp EXCEPT ![t] =
                                [call EXCEPT !.rejected = Append(@, out.err),
                                             !.st = "failed"]]
          ELSE /\ UNCHANGED PAGE_SIZE_CACHE
               /\ fp' = [fp EXCEPT ![t] = [call EXCEPT !.st = "failed"]]
    /\ UNCHANGED <<PAGE_SIZE_CANDIDATES, month, mpc, mi, di, discovered,
                   all_contratacoes, results, collected, submitted, negotiations,
                   failed_pages>>

\* lines 316-320 and 345-347: page 1 came back, or the discovery is logged as failed
DiscoverReturn ==
    /\ mpc = "discovering"
    /\ fp[MainThread].st \in {"ok", "failed"}
    /\ discovered' =
         IF fp[MainThread].st = "ok"
         THEN Append(discovered, [m |-> fp[MainThread].m,
                                  total |-> TotalPages(fp[MainThread].env),
                                  page1 |-> fp[MainThread].data])
         ELSE discovered
    /\ failed_pages' = IF fp[MainThread].st = "ok" THEN failed_pages
                       ELSE failed_pages \cup {<<fp[MainThread].m, 1>>}
    /\ mi' = mi + 1
    /\ mpc' = "discover"
    /\ fp' = [fp EXCEPT ![MainThread] = IdleCall]
    /\ UNCHANGED <<PAGE_SIZE_CANDIDATES, PAGE_SIZE_CACHE, month, di,
                   all_contratacoes, results, collected, submitted, negotiations>>

\* line 349: the first loop is over
DiscoverEnd ==
    /\ mpc = "discover"
    /\ mi > Len(Modalidades)
    /\ mpc' = "pages"
    /\ di' = 1
    /\ UNCHANGED <<PAGE_SIZE_CANDIDATES, PAGE_SIZE_CACHE, month, mi, discovered,
                   all_contratacoes, results, fp, collected, submitted, negotiations,
                   failed_pages>>

\* lines 349-351 and 324-328: page 1 is added; the other pages are submitted
PagesCall ==
    /\ mpc = "pages"
    /\ di <= Len(discovered)
    /\ all_contratacoes' = all_contratacoes \o discovered[di].page1
    /\ results' = <<>>
    /\ collected' = {}
    /\ IF discovered[di].total <= 1
       THEN /\ di' = di + 1
            /\ UNCHANGED <<mpc, fp, submitted>>
       ELSE /\ mpc' = "as_completed"
            /\ fp' = [t \in Threads |->
                        IF t \in SubmitPages(discovered[di].total)
                        THEN NewCall("queued", discovered[di].m, t) ELSE fp[t]]
            /\ submitted' = [p \in PageWorkers |->
                        IF p \in SubmitPages(discovered[di].total) THEN 1 ELSE 0]
            /\ UNCHANGED di
    /\ UNCHANGED <<PAGE_SIZE_CANDIDATES, PAGE_SIZE_CACHE, month, mi, discovered,
                   negotiations, failed_pages>>

\* a pool thread takes a queued page (at most MAX_WORKERS_PAGES run at once)
WorkerStart(p) ==
    /\ p \in PageWorkers
    /\ fp[p].st = "queued"
    /\ Cardinality(Running) < MAX_WORKERS_PAGES
    /\ fp' = [fp EXCEPT ![p].st = "check"]
    /\ UNCHANGED <<PAGE_SIZE_CANDIDATES, PAGE_SIZE_CACHE, month, mpc, mi, di, discovered,
                   all_contratacoes, results, collected, submitted, negotiations,
                   failed_pages>>

\* lines 329-336: as_completed hands over a finished future
Collect(p) ==
    /\ mpc = "as_completed"
    /\ p \in PageWorkers
    /\ p \notin collected
    /\ fp[p].st \in {"ok", "failed"}
    /\ results' = Extend(results, fp[p])
    /\ collected' = collected \cup {p}
    /\ failed_pages' = IF fp[p].st = "failed" THEN failed_pages \cup {<<fp[p].m, p>>}
                       ELSE failed_pages
    /\ UNCHANGED <<PAGE_SIZE_CANDIDATES, PAGE_SIZE_CACHE, month, mpc, mi, di, discovered,
                   all_contratacoes, fp, submitted, negotiations>>

\* lines 337 and 351-352: every future was handed over; the pages are merged
PagesReturn ==
    /\ mpc = "as_completed"
    /\ \A p \in PageWorkers : fp[p].st \in {"ok", "failed"} => p \in collected
    /\ \A p \in PageWorkers : fp[p].st \in {"idle", "ok", "failed"}
    /\ all_contratacoes' = all_contratacoes \o results
    /\ di' = di + 1
    /\ mpc' = "pages"
    /\ fp' = [t \in Threads |-> IF t \in PageWorkers THEN IdleCall ELSE fp[t]]
    /\ UNCHANGED <<PAGE_SIZE_CANDIDATES, PAGE_SIZE_CACHE, month, mi, discovered,
                   results, collected, submitted, negotiations, failed_pages>>

\* line 354: return all_contratacoes
MonthReturn ==
    /\ mpc = "pages"
    /\ di > Len(discovered)
    /\ mpc' = "month_done"
    /\ UNCHANGED <<PAGE_SIZE_CANDIDATES, PAGE_SIZE_CACHE, month, mi, di, discovered,
                   all_contratacoes, results, fp, collected, submitted, negotiations,
                   failed_pages>>

\* line 549: the month loop goes on to the next window, or the run ends
NextMonth ==
    /\ mpc = "month_done"
    /\ IF month < NumMonths
       THEN /\ month' = month + 1
            /\ mpc' = "month"
       ELSE /\ mpc' = "final"
            /\ UNCHANGED month
    /\ UNCHANGED <<PAGE_SIZE_CANDIDATES, PAGE_SIZE_CACHE, mi, di, discovered,
                   all_contratacoes, results, fp, collected, submitted, negotiations,
                   failed_pages>>

NextFetch ==
    \/ MonthFetch /\ UNCHANGED <<gvars, xvars>>
    \/ DiscoverCall /\ UNCHANGED <<gvars, xvars>>
    \/ \E t \in Threads : CheckCache(t) /\ UNCHANGED <<gvars, xvars>>
    \/ \E t \in Threads : \E out \in Outcomes(fp[t].pagina) :
            RequestCached(t, out) /\ UNCHANGED <<gvars, xvars>>
    \/ \E t \in Threads : \E out \in Outcomes(fp[t].pagina) :
            RequestCandidate(t, out) /\ UNCHANGED <<gvars, xvars>>
    \/ DiscoverReturn /\ UNCHANGED <<gvars, xvars>>
    \/ DiscoverEnd /\ UNCHANGED <<gvars, xvars>>
    \/ PagesCall /\ UNCHANGED <<gvars, xvars>>
    \/ \E p \in PageWorkers : WorkerStart(p) /\ UNCHANGED <<gvars, xvars>>
    \/ \E p \in PageWorkers : Collect(p) /\ UNCHANGED <<gvars, xvars>>
    \/ PagesReturn /\ UNCHANGED <<gvars, xvars>>
    \/ MonthReturn /\ UNCHANGED <<gvars, xvars>>
    \/ NextMonth /\ UNCHANGED <<gvars, xvars>>

SpecFetch == InitFetch /\ [][NextFetch]_vars

-----------------------------------------------------------------------------
(* Properties of the page harvest                                          *)

Count(x, seq) == Cardinality({i \in DOMAIN seq : seq[i] = x})

\* number of copies of record x on the server pages S (a set of <<modalidade, page>>)
RECURSIVE SumCounts(_, _)
SumCounts(x, S) ==
    IF S = {} THEN 0
    ELSE LET q == CHOOSE q \in S : TRUE
         IN Count(x, Data(q[1], q[2])) + SumCounts(x, S \ {q})

\* the pages 1..total of every modality whose discovery succeeded
DiscoveredPages ==
    UNION {{<<discovered[d].m, pg>> : pg \in 1..discovered[d].total} : d \in DOMAIN discovered}

SizeRelated400(e) == e.status = 400 /\ e.sizeMsg

\* C6: the candidate loop of fetch_page_with_pagesize is entered at most once
\* per (modalidade, modo) key in the life of the process.
C6_NegotiatedAtMostOncePerKey ==
    \A k \in Keys : negotiations[k] <= 1

\* C7: a negotiating call that succeeded leaves in PAGE_SIZE_CACHE[key] the
\* candidate of its last request, every candidate before it having been
\* requested in list order and rejected; a call that starts with the key
\* cached sends one request, with tamanhoPagina equal to the cached value
\* (omitted when that is None); no call negotiates while the key is cached.
C7_CacheHoldsFirstAcceptedCandidate ==
    \A t \in Threads :
        LET call == fp[t]
            n == Len(call.sent)
        IN /\ (call.path = "negotiate" /\ call.st = "ok")
                => /\ Key(call.m) \in DOMAIN PAGE_SIZE_CACHE
                   /\ n >= 1 /\ n <= Len(PAGE_SIZE_CANDIDATES)
                   /\ PAGE_SIZE_CACHE[Key(call.m)] = PAGE_SIZE_CANDIDATES[n]
                   /\ \A i \in 1..n :
                        call.sent[i] = IF PAGE_SIZE_CANDIDATES[i] = NoneVal THEN Omitted
                                       ELSE PAGE_SIZE_CANDIDATES[i]
                   /\ Len(call.rejected) = n - 1
           /\ call.path = "cached"
                => /\ Key(call.m) \in DOMAIN PAGE_SIZE_CACHE
                   /\ n <= 1
                   /\ call.st \in {"ok", "failed"} => n = 1
                   /\ n = 1 =>
                        call.sent[1] = IF PAGE_SIZE_CACHE[Key(call.m)] = NoneVal THEN Omitted
                                       ELSE PAGE_SIZE_CACHE[Key(call.m)]
           /\ call.st = "candidate" => Key(call.m) \notin DOMAIN PAGE_SIZE_CACHE

C7_Witness ==
    /\ PAGE_SIZE_CANDIDATES = <<500, 200>>
    /\ Key(6) \in DOMAIN PAGE_SIZE_CACHE
    /\ PAGE_SIZE_CACHE[Key(6)] = 200
    /\ \E t \in Threads : fp[t].path = "cached" /\ fp[t].st = "ok" /\ fp[t].m = 6
                            /\ fp[t].sent = <<200>>

C9_AllPagesMergedExactlyOnce ==
    /\ mpc = "as_completed"
         => \A pg \in PageWorkers :
                submitted[pg] = IF 2 <= pg /\ pg <= discovered[di].total THEN 1 ELSE 0
    /\ (mpc = "month_done" /\ \A q \in failed_pages : q[2] = 1)
         => \A x \in Records : Count(x, all_contratacoes) = SumCounts(x, DiscoveredPages)

C9_Witness ==
    /\ mpc = "month_done"
    /\ failed_pages = {}
    /\ Len(discovered) = 2
    /\ discovered[2].total = 3
    /\ results = Data(discovered[2].m, 3) \o Data(discovered[2].m, 2)

\* C10: when fetch_all_pages_for_modalidade has handed over all its futures,
\* its result holds the records of exactly the pages whose fetch succeeded,
\* and the month's result leaves out the failed pages and nothing else.
C10_FailedPageDroppedOthersKept ==
    /\ (mpc = "as_completed" /\ collected = 2..discovered[di].total)
         => \A x \in Records :
                Count(x, results) =
                    SumCounts(x, {<<discovered[di].m, pg>> :
                                    pg \in {w \in 2..discovered[di].total : fp[w].st = "ok"}})
    /\ mpc = "month_done"
         => \A x \in Records :
                Count(x, all_contratacoes) = SumCounts(x, DiscoveredPages \ failed_pages)

C10_Witness ==
    /\ mpc = "month_done"
    /\ <<6, 2>> \in failed_pages
    /\ Len(discovered) >= 1
    /\ discovered[1].m = 6 /\ discovered[1].total = 3
    /\ Count(64, all_contratacoes) = 1
    /\ Count(62, all_contratacoes) = 1

-----------------------------------------------------------------------------
(* SpecCalls: a caller fetches windows with                                *)
(* fetch_contratacoes_multi_modalidade, in any order, repeats included     *)

InitCalls ==
    /\ GetIdle
    /\ FetchIdle
    /\ CallsIdle
    /\ ItensIdle
    /\ SplitIdle
    /\ RunIdle
    /\ FornIdle
    /\ CurrencyIdle
    /\ ItemIdle
    /\ AtaIdle
    /\ SituacaoIdle

\* lines 339-354: one whole call for window w, the server being in state srv
FetchWindow(w, srv) ==
    /\ last_fetch' = [window |-> w, fetches |-> PageFetches(srv),
                      records |-> WindowRecords(srv),
                      repeated |-> first_fetch[w] # NotFetched]
    /\ first_fetch' = IF first_fetch[w] = NotFetched
                      THEN [first_fetch EXCEPT ![w] = WindowRecords(srv)]
                      ELSE first_fetch

NextCalls ==
    \E w \in Windows, srv \in ServerStates(FALSE) :
        FetchWindow(w, srv) /\ UNCHANGED <<gvars, fvars, ivars, svars, rvars, nvars, uvars, tvars, avars, qvars>>

SpecCalls == InitCalls /\ [][NextCalls]_vars

\* C11: the second fetch of a window makes no network request and returns the
\* records the first fetch returned.
C11_SecondFetchServedFromCache ==
    last_fetch.repeated
        => (last_fetch.fetches = 0
              /\ last_fetch.records = first_fetch[last_fetch.window])

-----------------------------------------------------------------------------
(* SpecItens: the item stage of one month, lines 556-597 and               *)
(* fetch_itens_para_ids with its _worker threads                           *)

InitItens ==
    /\ GetIdle
    /\ FetchIdle
    /\ CallsIdle
    /\ SplitIdle
    /\ RunIdle
    /\ FornIdle
    /\ CurrencyIdle
    /\ ItemIdle
    /\ AtaIdle
    /\ SituacaoIdle
    /\ MAX_WORKERS_ITENS \in 1..MaxPool
    /\ CONC_ITENS = MAX_WORKERS_ITENS
    /\ filtradas_mes \in SeqsUpTo(RecordShapes, MaxRecords)
    /\ ids_do_mes = <<>>
    /\ ipc = "derive"
    /\ wk = [k \in 1..MaxRecords |-> IdleFuture]
    /\ encontrados = <<>>
    /\ itens_coletados = {}
    /\ item_calls = [k \in 1..MaxRecords |-> 0]
    /\ max_holding = 0

Busy == {k \in DOMAIN wk : wk[k].st \in {"running", "holding"}}
Holding == {k \in DOMAIN wk : wk[k].st = "holding"}

\* lines 556-595: the ids of the month, without repeats
DeriveIdsOfMonth ==
    /\ ipc = "derive"
    /\ ids_do_mes' = DeriveIds(filtradas_mes, <<>>)
    /\ ipc' = "call"
    /\ UNCHANGED <<MAX_WORKERS_ITENS, CONC_ITENS, filtradas_mes, wk, encontrados,
                   itens_coletados, item_calls, max_holding>>

\* lines 387-401: fetch_itens_para_ids returns [] at once or submits every id
FetchItensCall ==
    /\ ipc = "call"
    /\ encontrados' = <<>>
    /\ itens_coletados' = {}
    /\ IF ids_do_mes = <<>>
       THEN /\ ipc' = "returned"
            /\ UNCHANGED wk
       ELSE /\ ipc' = "as_completed"
            /\ wk' = [k \in 1..MaxRecords |->
                        IF k \in DOMAIN ids_do_mes
                        THEN [st |-> "queued", idp |-> ids_do_mes[k], itens |-> <<>>]
                        ELSE IdleFuture]
    /\ UNCHANGED <<MAX_WORKERS_ITENS, CONC_ITENS, filtradas_mes, ids_do_mes, item_calls,
                   max_holding>>

\* a pool thread takes a queued _worker call
ItemWorkerStart(k) ==
    /\ wk[k].st = "queued"
    /\ PoolHasFreeThread(Cardinality(Busy), MAX_WORKERS_ITENS)
    /\ wk' = [wk EXCEPT ![k].st = "running"]
    /\ UNCHANGED <<MAX_WORKERS_ITENS, CONC_ITENS, filtradas_mes, ids_do_mes, ipc,
                   encontrados, itens_coletados, item_calls, max_holding>>

\* line 394: CONC_ITENS.acquire() blocks while no permit is left
Acquire(k) ==
    /\ wk[k].st = "running"
    /\ CONC_ITENS > 0
    /\ CONC_ITENS' = CONC_ITENS - 1
    /\ wk' = [wk EXCEPT ![k].st = "holding"]
    /\ max_holding' = IF Cardinality(Holding) + 1 > max_holding
                      THEN Cardinality(Holding) + 1 ELSE max_holding
    /\ UNCHANGED <<MAX_WORKERS_ITENS, filtradas_mes, ids_do_mes, ipc, encontrados,
                   itens_coletados, item_calls>>

\* faulty variant: the permit is given back only when the request succeeded
ReleasePermit_onsuccess(permits, ok) == IF ok THEN permits + 1 ELSE permits
\* lines 397-398: finally: CONC_ITENS.release(), whether or not the request raised
ReleasePermit(permits, ok) == permits + 1

\* lines 395-398 and 357-385: the items request ends, the permit is released
ItemRequest(k, ok) ==
    /\ wk[k].st = "holding"
    /\ item_calls' = [item_calls EXCEPT ![k] = @ + 1]
    /\ CONC_ITENS' = ReleasePermit(CONC_ITENS, ok)
    /\ wk' = [wk EXCEPT ![k].st = IF ok THEN "ok" ELSE "failed",
                        ![k].itens = IF ok THEN Itens(wk[k].idp) ELSE <<>>]
    /\ UNCHANGED <<MAX_WORKERS_ITENS, filtradas_mes, ids_do_mes, ipc, encontrados,
                   itens_coletados, max_holding>>

\* lines 402-410: as_completed hands over a finished future
CollectItens(k) ==
    /\ ipc = "as_completed"
    /\ k \notin itens_coletados
    /\ wk[k].st \in {"ok", "failed"}
    /\ encontrados' = ExtendItens(encontrados, wk[k])
    /\ itens_coletados' = itens_coletados \cup {k}
    /\ UNCHANGED <<MAX_WORKERS_ITENS, CONC_ITENS, filtradas_mes, ids_do_mes, ipc, wk,
                   item_calls, max_holding>>

\* line 411: return encontrados
FetchItensReturn ==
    /\ ipc = "as_completed"
    /\ itens_coletados = DOMAIN ids_do_mes
    /\ ipc' = "returned"
    /\ UNCHANGED <<MAX_WORKERS_ITENS, CONC_ITENS, filtradas_mes, ids_do_mes, wk,
                   encontrados, itens_coletados, item_calls, max_holding>>

NextItens ==
    \/ DeriveIdsOfMonth /\ UNCHANGED <<gvars, fvars, cvars, svars, rvars, nvars, uvars, tvars, avars, qvars>>
    \/ FetchItensCall /\ UNCHANGED <<gvars, fvars, cvars, svars, rvars, nvars, uvars, tvars, avars, qvars>>
    \/ \E k \in 1..MaxRecords : ItemWorkerStart(k) /\ UNCHANGED <<gvars, fvars, cvars, svars, rvars, nvars, uvars, tvars, avars, qvars>>
    \/ \E k \in 1..MaxRecords : Acquire(k) /\ UNCHANGED <<gvars, fvars, cvars, svars, rvars, nvars, uvars, tvars, avars, qvars>>
    \/ \E k \in 1..MaxRecords, ok \in BOOLEAN :
            ItemRequest(k, ok) /\ UNCHANGED <<gvars, fvars, cvars, svars, rvars, nvars, uvars, tvars, avars, qvars>>
    \/ \E k \in 1..MaxRecords : CollectItens(k) /\ UNCHANGED <<gvars, fvars, cvars, svars, rvars, nvars, uvars, tvars, avars, qvars>>
    \/ FetchItensReturn /\ UNCHANGED <<gvars, fvars, cvars, svars, rvars, nvars, uvars, tvars, avars, qvars>>

SpecItens == InitItens /\ [][NextItens]_vars

\* the contracts (cnpj, ano, seq) among the month's filtered records that have an id
Contracts == {<<filtradas_mes[j].cnpj, filtradas_mes[j].ano, filtradas_mes[j].seq>> :
                j \in {n \in DOMAIN filtradas_mes : DeriveId(filtradas_mes[n]) # NoId}}
CallsAt[k \in 0..MaxRecords] == IF k = 0 THEN 0 ELSE CallsAt[k - 1] + item_calls[k]
CallsFor(idp) ==
    LET n[k \in 0..MaxRecords] ==
            IF k = 0 THEN 0
            ELSE n[k - 1] + (IF wk[k].idp = idp THEN item_calls[k] ELSE 0)
    IN n[MaxRecords]

\* C12: the ids handed to the item stage hold each contract once, whichever
\* path derived its id, so no id is requested twice and, when the stage
\* returns, exactly one items call was made per distinct contract.
C12_OneItemsCallPerDistinctId ==
    /\ \A k \in DOMAIN item_calls : item_calls[k] > 0 => CallsFor(wk[k].idp) = 1
    /\ ipc # "derive" => Len(ids_do_mes) = Cardinality(Contracts)
    /\ ipc = "returned" =>
          /\ CallsAt[MaxRecords] = Cardinality(Contracts)
          /\ \A j \in DOMAIN ids_do_mes : CallsFor(ids_do_mes[j]) = 1

\* the same contract appears through the control number and through the
\* fallback fields, and the stage has returned after requesting its items
C12_Witness ==
    /\ ipc = "returned"
    /\ \E a, b \in DOMAIN filtradas_mes :
          /\ filtradas_mes[a].nc # EmptyStr
          /\ format_id_pncp_from_numero_controle(filtradas_mes[a].nc) # NoId
          /\ filtradas_mes[b].nc = EmptyStr
          /\ filtradas_mes[b].fields
          /\ filtradas_mes[a].seq = filtradas_mes[b].seq
    /\ CallsAt[MaxRecords] >= 1

\* the positions of ids_do_mes whose items call succeeded / failed
Succeeded == {k \in DOMAIN ids_do_mes : wk[k].st = "ok"}
Failed == {k \in DOMAIN ids_do_mes : wk[k].st = "failed"}
ItemsOf(k) == {n \in DOMAIN encontrados : encontrados[n].id_pncp = ids_do_mes[k]}

\* C13: when fetch_itens_para_ids returns, every id was attempted, the result
\* holds each item of every successful id exactly once and no item of a
\* failed id; a failure never stops the other ids.
C13_FailedItemsDroppedOthersKept ==
    ipc = "returned" =>
        /\ \A k \in DOMAIN ids_do_mes : wk[k].st \in {"ok", "failed"}
        /\ \A k \in Succeeded :
              \A n \in DOMAIN Itens(ids_do_mes[k]) :
                  Cardinality({e \in DOMAIN encontrados :
                                 encontrados[e] = Itens(ids_do_mes[k])[n]}) = 1
        /\ \A k \in Failed : ItemsOf(k) = {}
        /\ Len(encontrados) = 2 * Cardinality(Succeeded)

\* the stage returned with a failed id submitted before a successful one
C13_Witness ==
    /\ ipc = "returned"
    /\ Failed # {}
    /\ Succeeded # {}
    /\ \E k \in Failed : \E j \in Succeeded : k < j
    /\ encontrados # <<>>

C16_DegradedTickShrinksLimit ==
    [][(/\ ipc = "as_completed"
        /\ ipc' = "returned"
        /\ CallsAt[MaxRecords] >= 2
        /\ Succeeded = {}
        /\ MAX_WORKERS_ITENS > 1)
          => MAX_WORKERS_ITENS' < MAX_WORKERS_ITENS]_vars

-----------------------------------------------------------------------------
(* SpecSplit: gerar_intervalos_mensais, lines 96-110                       *)

\* lines 97-101: both strings parsed, the loop starts at start_date
InitSplit ==
    /\ GetIdle
    /\ FetchIdle
    /\ CallsIdle
    /\ ItensIdle
    /\ RunIdle
    /\ FornIdle
    /\ CurrencyIdle
    /\ ItemIdle
    /\ AtaIdle
    /\ SituacaoIdle
    /\ \E s \in DateStrs, e \in DateStrs :
          /\ s <= e
          /\ start_date = strptime(s)
          /\ end_date = strptime(e)
    /\ current_date = start_date
    /\ intervalos = <<>>
    /\ spc = "loop"

\* lines 102-109: one turn of the while loop
SplitStep ==
    /\ spc = "loop"
    /\ ~Before(end_date, current_date)
    /\ intervalos' = Append(intervalos,
                            <<strftime(IntervaloStart(start_date, current_date)),
                              strftime(IntervaloEnd(end_date, current_date))>>)
    /\ current_date' = AddDay(MonthEnd(current_date))
    /\ UNCHANGED <<start_date, end_date, spc>>

\* line 110: the loop is left, the list is returned
SplitReturn ==
    /\ spc = "loop"
    /\ Before(end_date, current_date)
    /\ spc' = "returned"
    /\ UNCHANGED <<start_date, end_date, current_date, intervalos>>

NextSplit ==
    \/ SplitStep /\ UNCHANGED <<gvars, fvars, cvars, ivars, rvars, nvars, uvars, tvars, avars, qvars>>
    \/ SplitReturn /\ UNCHANGED <<gvars, fvars, cvars, ivars, rvars, nvars, uvars, tvars, avars, qvars>>

SpecSplit == InitSplit /\ [][NextSplit]_vars

\* C17: the windows returned for start <= end are sorted and pairwise
\* disjoint, the first begins at start, the last ends at end, each begins on
\* the day after the previous one ends, and none ends after end.
C17_WindowsCoverPeriodExactly ==
    /\ \A i \in DOMAIN intervalos :
          /\ intervalos[i][1] <= intervalos[i][2]
          /\ intervalos[i][2] <= strftime(end_date)
          /\ i = 1 => intervalos[i][1] = strftime(start_date)
          /\ i > 1 =>
                /\ intervalos[i - 1][2] < intervalos[i][1]
                /\ strptime(intervalos[i][1]) = AddDay(strptime(intervalos[i - 1][2]))
    /\ spc = "returned" =>
          /\ intervalos # <<>>
          /\ intervalos[Len(intervalos)][2] = strftime(end_date)

\* a period that begins and ends inside months and spans three of them
C17_Witness ==
    /\ spc = "returned"
    /\ Len(intervalos) = 3
    /\ start_date.day > 1
    /\ end_date.day < monthrange(end_date.year, end_date.month)

\* C18: every window ends on the last day of the month it starts in, or on
\* the end of the general period if that is earlier, and every window after
\* the first starts on day 1; the two periods of the example give the
\* windows of the example.
C18_MonthlyWindowBoundaries ==
    /\ \A i \in DOMAIN intervalos :
          LET ws == strptime(intervalos[i][1])
              lastOfMonth == ws.year * 10000 + ws.month * 100 + monthrange(ws.year, ws.month)
          IN /\ intervalos[i][2] = IF strftime(end_date) < lastOfMonth
                                   THEN strftime(end_date) ELSE lastOfMonth
             /\ i > 1 => ws.day = 1
    /\ (spc = "returned" /\ strftime(start_date) = 20240101 /\ strftime(end_date) = 20240131)
          => intervalos = << <<20240101, 20240131>> >>
    /\ (spc = "returned" /\ strftime(start_date) = 20240115 /\ strftime(end_date) = 20240215)
          => intervalos = << <<20240115, 20240131>>, <<20240201, 20240215>> >>

\* the second period of the example has been split
C18_Witness ==
    /\ spc = "returned"
    /\ strftime(start_date) = 20240115
    /\ strftime(end_date) = 20240215
    /\ Len(intervalos) = 2

\* C19: the splitter follows the configured mode: weekly windows run from
\* their start to six days later, semimonthly windows end on day 15 or on the
\* last day of the month, monthly windows end on the last day of the month,
\* each clipped to the end of the general period. Stated for the windows
\* gerar_intervalos_mensais builds, whichever of the three modes is wanted.
C19_WindowsFollowConfiguredMode ==
    \A mode \in {"weekly", "semimonthly", "monthly"} :
        \A i \in DOMAIN intervalos :
            LET ws == strptime(intervalos[i][1])
                plus6 == AddDay(AddDay(AddDay(AddDay(AddDay(AddDay(ws))))))
                half == IF ws.day <= 15 THEN Date(ws.year, ws.month, 15) ELSE MonthEnd(ws)
                wanted == IF mode = "weekly" THEN plus6
                          ELSE IF mode = "semimonthly" THEN half
                          ELSE MonthEnd(ws)
            IN intervalos[i][2] = strftime(MinDate(end_date, wanted))

-----------------------------------------------------------------------------
(* SpecRun: the month loop of __main__, lines 549-675, one step per call   *)

InitRun ==
    /\ GetIdle
    /\ FetchIdle
    /\ CallsIdle
    /\ ItensIdle
    /\ SplitIdle
    /\ FornIdle
    /\ CurrencyIdle
    /\ ItemIdle
    /\ AtaIdle
    /\ SituacaoIdle
    /\ run_i = 1
    /\ rpc = "fetch"
    /\ contratacoes_mes = <<>>
    /\ itens_brutos_mes = <<>>
    /\ dados_para_json_mes = {}
    /\ unificado_sections = 0
    /\ tentadas = {}
    /\ descobertas = {}
    /\ falhas = NoFalhas

\* line 552: the contratacoes of the month; an exception that leaves the call
\* reaches the handler of lines 674-675 and the run is over
RunFetchContratacoes(srv) ==
    /\ rpc = "fetch"
    /\ LET res == FetchContratacoes(srv)
       IN /\ rpc' = IF res.raised THEN "fatal" ELSE "itens"
          /\ contratacoes_mes' = res.all
          /\ tentadas' = res.tentadas
          /\ descobertas' = res.descobertas
    /\ falhas' = [falhas EXCEPT
                    !.disc = @ \/ \E i \in DOMAIN Modalidades : ~srv[i].disc,
                    !.page = @ \/ \E i \in DOMAIN Modalidades : srv[i].failed # {}]
    /\ itens_brutos_mes' = <<>>
    /\ dados_para_json_mes' = {}
    /\ UNCHANGED <<run_i, unificado_sections>>

\* lines 555-597: the ids of the month and their items
RunFetchItens(bad, err) ==
    /\ rpc = "itens"
    /\ LET ids == UniqueIds(contratacoes_mes, <<>>)
           res == FetchItens(ids, bad, err)
       IN /\ bad \subseteq {ids[k] : k \in DOMAIN ids}
          /\ rpc' = IF res.raised THEN "fatal" ELSE "report"
          /\ itens_brutos_mes' = res.encontrados
    /\ falhas' = [falhas EXCEPT !.itens = @ \/ bad # {}]
    /\ UNCHANGED <<run_i, contratacoes_mes, dados_para_json_mes, unificado_sections, tentadas,
                   descobertas>>

\* lines 599-648: the month's report is written, then the next month or the end
RunReport ==
    /\ rpc = "report"
    /\ dados_para_json_mes' =
          {itens_brutos_mes[k].id_pncp : k \in DOMAIN itens_brutos_mes}
    /\ unificado_sections' = unificado_sections + (IF itens_brutos_mes # <<>> THEN 1 ELSE 0)
    /\ rpc' = "reported"
    /\ UNCHANGED <<run_i, contratacoes_mes, itens_brutos_mes, tentadas, descobertas, falhas>>

\* lines 646-648 and 549: the pause, then the next month, whose lists are
\* built anew (lines 552-558, 597-599)
RunNextMonth ==
    /\ rpc = "reported"
    /\ run_i < NumMonths
    /\ run_i' = run_i + 1
    /\ rpc' = "fetch"
    /\ contratacoes_mes' = <<>>
    /\ itens_brutos_mes' = <<>>
    /\ dados_para_json_mes' = {}
    /\ tentadas' = {}
    /\ descobertas' = {}
    /\ UNCHANGED <<unificado_sections, falhas>>

\* lines 650-672: the unified report after the last month
RunFinish ==
    /\ rpc = "reported"
    /\ run_i = NumMonths
    /\ rpc' = "done"
    /\ UNCHANGED <<run_i, contratacoes_mes, itens_brutos_mes, dados_para_json_mes,
                   unificado_sections, tentadas, descobertas, falhas>>

NextRun ==
    \/ \E srv \in RunServerStates :
            RunFetchContratacoes(srv) /\ UNCHANGED <<gvars, fvars, cvars, ivars, svars, nvars, uvars, tvars, avars, qvars>>
    \/ \E bad \in {{}} \cup {{x} : x \in Records}, err \in ErrKinds :
            RunFetchItens(bad, err) /\ UNCHANGED <<gvars, fvars, cvars, ivars, svars, nvars, uvars, tvars, avars, qvars>>
    \/ RunReport /\ UNCHANGED <<gvars, fvars, cvars, ivars, svars, nvars, uvars, tvars, avars, qvars>>
    \/ RunNextMonth /\ UNCHANGED <<gvars, fvars, cvars, ivars, svars, nvars, uvars, tvars, avars, qvars>>
    \/ RunFinish /\ UNCHANGED <<gvars, fvars, cvars, ivars, svars, nvars, uvars, tvars, avars, qvars>>

SpecRun == InitRun /\ [][NextRun]_vars

\* C20: a failed discovery, page or items call never ends the run: the fatal
\* handler is never reached, every modality of a window is tried and the
\* records of every discovered modality are kept, every month's report holds
\* each id whose items were fetched, and the run ends only after the last month.
C20_UnitFailureNeverStopsHarvest ==
    /\ rpc # "fatal"
    /\ rpc \in {"itens", "report", "reported", "done"} =>
          /\ tentadas = DOMAIN Modalidades
          /\ \A i \in descobertas : \A n \in DOMAIN Data(Modalidades[i], 1) :
                \E j \in DOMAIN contratacoes_mes :
                    contratacoes_mes[j] = Data(Modalidades[i], 1)[n]
    /\ rpc \in {"reported", "done"} =>
          dados_para_json_mes = {itens_brutos_mes[k].id_pncp : k \in DOMAIN itens_brutos_mes}
    /\ rpc \in {"report", "reported", "done"} =>
          /\ Len(itens_brutos_mes) >= Cardinality({contratacoes_mes[k] : k \in DOMAIN contratacoes_mes}) - 1
          /\ \A k \in DOMAIN itens_brutos_mes :
                \E j \in DOMAIN contratacoes_mes : contratacoes_mes[j] = itens_brutos_mes[k].id_pncp
    /\ rpc = "done" => run_i = NumMonths

\* the run came to its end after a discovery, a page and an items call had
\* failed, and the last month still brought records into its report
C20_Witness ==
    /\ rpc = "done"
    /\ falhas.disc /\ falhas.page /\ falhas.itens
    /\ descobertas # DOMAIN Modalidades
    /\ dados_para_json_mes # {}
    /\ unificado_sections = NumMonths

-----------------------------------------------------------------------------
(* SpecForn: create_fornecedor and get_or_create_fornecedor,               *)
(* src/database.py lines 525-549                                           *)

\* the table is empty or holds the row _seed inserts (line 449)
InitForn ==
    /\ GetIdle
    /\ FetchIdle
    /\ CallsIdle
    /\ ItensIdle
    /\ SplitIdle
    /\ RunIdle
    /\ CurrencyIdle
    /\ ItemIdle
    /\ AtaIdle
    /\ SituacaoIdle
    /\ fornecedor \in {<<>>, <<"JIIJ">>}
    /\ goc = [t \in DbThreads |-> GocIdle]
    /\ last_goc = NoGoc

\* rows that threads inside get_or_create_fornecedor are about to insert
Pending == {t \in DbThreads : goc[t].pc = "insert"}

\* lines 525-532: create_fornecedor inserts a row, whatever the table holds
create_fornecedor(nome) ==
    /\ Len(fornecedor) + Cardinality(Pending) < MaxFornecedores
    /\ fornecedor' = Append(fornecedor, nome)
    /\ UNCHANGED <<goc, last_goc>>

\* lines 542-545: the query; the id is returned, the exception leaves the
\* function, or the thread goes on to insert
GetOrCreateQuery(t, nome) ==
    /\ goc[t].pc = "idle"
    /\ Len(fornecedor) + Cardinality(Pending) < MaxFornecedores
    /\ LET forn == one_or_none(IdsOf(fornecedor, nome))
       IN IF forn = 0
          THEN /\ goc' = [goc EXCEPT ![t] = [pc |-> "insert", nome |-> nome]]
               /\ UNCHANGED last_goc
          ELSE /\ last_goc' = [done |-> TRUE, nome |-> nome,
                               existing |-> IdsOf(fornecedor, nome),
                               ret |-> forn, inserted |-> FALSE]
               /\ UNCHANGED goc
    /\ UNCHANGED fornecedor

\* lines 546-549: the row is added and committed, its id returned
GetOrCreateInsert(t) ==
    /\ goc[t].pc = "insert"
    /\ fornecedor' = Append(fornecedor, goc[t].nome)
    /\ last_goc' = [done |-> TRUE, nome |-> goc[t].nome,
                    existing |-> IdsOf(fornecedor, goc[t].nome),
                    ret |-> Len(fornecedor) + 1, inserted |-> TRUE]
    /\ goc' = [goc EXCEPT ![t] = GocIdle]

NextForn ==
    \/ \E nome \in Nomes : create_fornecedor(nome) /\ UNCHANGED <<gvars, fvars, cvars, ivars, svars, rvars, uvars, tvars, avars, qvars>>
    \/ \E t \in DbThreads, nome \in Nomes : GetOrCreateQuery(t, nome) /\ UNCHANGED <<gvars, fvars, cvars, ivars, svars, rvars, uvars, tvars, avars, qvars>>
    \/ \E t \in DbThreads : GetOrCreateInsert(t) /\ UNCHANGED <<gvars, fvars, cvars, ivars, svars, rvars, uvars, tvars, avars, qvars>>

SpecForn == InitForn /\ [][NextForn]_vars

\* C21: a get_or_create_fornecedor call returns the id of a row that already
\* had the nome whenever there was one, and inserts only when there was none.
C21_GetOrCreateReusesExisting ==
    last_goc.done =>
        IF last_goc.existing # {}
        THEN last_goc.ret \in last_goc.existing /\ ~last_goc.inserted
        ELSE last_goc.inserted /\ fornecedor[last_goc.ret] = last_goc.nome

-----------------------------------------------------------------------------
(* SpecCurrency: a value formatted and parsed back, or a text parsed       *)

InitCurrency ==
    /\ GetIdle
    /\ FetchIdle
    /\ CallsIdle
    /\ ItensIdle
    /\ SplitIdle
    /\ RunIdle
    /\ FornIdle
    /\ ItemIdle
    /\ AtaIdle
    /\ SituacaoIdle
    /\ valor \in {NoValor} \cup {[none |-> FALSE, n |-> k] :
                             k \in (-MaxCentavos..MaxCentavos) \cup LargeCentavos}
    /\ texto = <<>>
    /\ centavos = NoCentavos
    /\ upc = "start"

\* format_currency(valor_centavos)
Format ==
    /\ upc = "start"
    /\ texto' = format_currency(valor)
    /\ upc' = "formatted"
    /\ UNCHANGED <<valor, centavos>>

\* parse_currency of the formatted text (src/main.py line 194)
ParseFormatted ==
    /\ upc = "formatted"
    /\ centavos' = parse_currency(texto)
    /\ upc' = "parsed"
    /\ UNCHANGED <<valor, texto>>

\* parse_currency of a text typed by the user (src/main.py line 1435)
ParseText(txt) ==
    /\ upc = "start"
    /\ texto' = txt
    /\ centavos' = parse_currency(txt)
    /\ upc' = "parsed_text"
    /\ UNCHANGED valor

NextCurrency ==
    \/ Format /\ UNCHANGED <<gvars, fvars, cvars, ivars, svars, rvars, nvars, tvars, avars, qvars>>
    \/ ParseFormatted /\ UNCHANGED <<gvars, fvars, cvars, ivars, svars, rvars, nvars, tvars, avars, qvars>>
    \/ \E txt \in ExampleTexts : ParseText(txt) /\ UNCHANGED <<gvars, fvars, cvars, ivars, svars, rvars, nvars, tvars, avars, qvars>>

SpecCurrency == InitCurrency /\ [][NextCurrency]_vars

\* C22: parse_currency gives back the centavos format_currency was given,
\* for every integer, negative ones included; None is formatted as
\* 'R$ 0,00', 69010 as 'R$ 690,10', and 'R$ 1.234,56' parses to 123456.
C22_ParseInvertsFormat ==
    /\ upc = "parsed" =>
          /\ ~centavos.raised
          /\ centavos.n = IF valor.none THEN 0 ELSE valor.n
    /\ (upc \in {"formatted", "parsed"} /\ valor.none) => texto = <<"R", "$", " ", "0", ",", "0", "0">>
    /\ (upc \in {"formatted", "parsed"} /\ ~valor.none /\ valor.n = 69010) => texto = <<"R", "$", " ", "6", "9", "0", ",", "1", "0">>
    /\ (upc = "parsed_text" /\ texto = <<"R", "$", " ", "1", ".", "2", "3", "4", ",", "5", "6">>) => centavos = [raised |-> FALSE, n |-> 123456]

\* C23: a negotiating call in which every request was rejected with a
\* size-related 400 ends with an error after one request per candidate, in
\* list order, and leaves no entry for its key in PAGE_SIZE_CACHE.
C23_AllCandidatesRejectedIsTerminal ==
    \A t \in Threads :
        LET call == fp[t]
        IN (/\ call.path = "negotiate"
            /\ call.st = "failed"
            /\ Len(call.rejected) = Len(call.sent)
            /\ \A i \in DOMAIN call.rejected : SizeRelated400(call.rejected[i]))
             => /\ Len(call.sent) = Len(PAGE_SIZE_CANDIDATES)
                /\ \A i \in DOMAIN call.sent :
                      call.sent[i] = TamanhoPagina(PAGE_SIZE_CANDIDATES[i])
                /\ Key(call.m) \notin DOMAIN PAGE_SIZE_CACHE

\* both candidates of a two-candidate list were rejected as invalid sizes
C23_Witness ==
    /\ Len(PAGE_SIZE_CANDIDATES) = 2
    /\ fp[MainThread].path = "negotiate"
    /\ fp[MainThread].st = "failed"
    /\ Len(fp[MainThread].sent) = 2
    /\ Len(fp[MainThread].rejected) = 2
    /\ \A i \in 1..2 : SizeRelated400(fp[MainThread].rejected[i])

\* C24: the page count recorded for a modality is the envelope's totalPaginas
\* when it has one (absent and 0 alike count as none), else its
\* totalPaginasConsulta, else 1; with a count of at most 1 the modality adds
\* page 1's records and no page request is made, and with a larger count
\* exactly the pages 2..count are submitted.
C24_PageCountFromEnvelope ==
    [][/\ (mpc = "discovering" /\ mpc' = "discover" /\ fp[MainThread].st = "ok")
            => LET env == fp[MainThread].env
                   count == IF env.totalPaginas # NoneVal /\ env.totalPaginas # 0
                            THEN env.totalPaginas
                            ELSE IF env.totalPaginasConsulta # NoneVal
                                    /\ env.totalPaginasConsulta # 0
                            THEN env.totalPaginasConsulta
                            ELSE 1
               IN /\ Len(discovered') = Len(discovered) + 1
                  /\ discovered'[Len(discovered')].total = count
                  /\ discovered'[Len(discovered')].page1 = fp[MainThread].data
       /\ (mpc = "pages" /\ di <= Len(discovered) /\ discovered[di].total <= 1)
            => /\ mpc' = "pages"
               /\ di' = di + 1
               /\ all_contratacoes' = all_contratacoes \o discovered[di].page1
               /\ \A p \in PageWorkers : fp'[p].st = "idle"
       /\ (mpc = "pages" /\ di <= Len(discovered) /\ discovered[di].total > 1)
            => /\ mpc' = "as_completed"
               /\ \A p \in PageWorkers :
                     fp'[p].st = IF p <= discovered[di].total THEN "queued" ELSE "idle"
      ]_vars

\* a month in which one modality had a single page and the other three,
\* the count of the second coming from the alternate field's value
C24_Witness ==
    /\ mpc = "month_done"
    /\ failed_pages = {}
    /\ Len(discovered) = 2
    /\ discovered[1].total = 1
    /\ discovered[2].total = 3
    /\ all_contratacoes = Data(discovered[1].m, 1) \o Data(discovered[2].m, 1)
                          \o Data(discovered[2].m, 2) \o Data(discovered[2].m, 3)

\* C25: every filtered record gets an id, from its control number when that
\* parses and from the fallback fields otherwise, and that id is among the
\* ids handed to the item stage: no filtered record is dropped.
C25_EveryFilteredRecordHasId ==
    ipc # "derive" =>
        \A k \in DOMAIN filtradas_mes :
            LET c == filtradas_mes[k]
                parsed == IF c.nc # EmptyStr
                          THEN format_id_pncp_from_numero_controle(c.nc) ELSE NoId
            IN /\ DeriveId(c) # NoId
               /\ parsed # NoId => DeriveId(c) = parsed
               /\ parsed = NoId => DeriveId(c) = JoinId(c.cnpj, Dec(c.ano), Dec(c.seq))
               /\ \E j \in DOMAIN ids_do_mes : ids_do_mes[j] = DeriveId(c)

-----------------------------------------------------------------------------
(* SpecItem: itens_pncp_por_id normalises an upstream item,                *)
(* src/pncp.py lines 357-385                                               *)

InitItem ==
    /\ GetIdle
    /\ FetchIdle
    /\ CallsIdle
    /\ ItensIdle
    /\ SplitIdle
    /\ RunIdle
    /\ FornIdle
    /\ CurrencyIdle
    /\ AtaIdle
    /\ SituacaoIdle
    /\ it_pncp \in [quantidade : JValues, valorUnitarioEstimado : JValues,
               valorEstimado : JValues, valorTotalEstimado : JValues]
    /\ out_itens = <<>>
    /\ tpc = "loop"

\* lines 366-384: the loop body for the item, then return out_itens
itens_pncp_por_id ==
    /\ tpc = "loop"
    /\ out_itens' = Append(out_itens, NormalizeItem(it_pncp))
    /\ tpc' = "returned"
    /\ UNCHANGED it_pncp

NextItem ==
    \/ itens_pncp_por_id /\ UNCHANGED <<gvars, fvars, cvars, ivars, svars, rvars, nvars, uvars, avars, qvars>>

SpecItem == InitItem /\ [][NextItem]_vars

C27_WorkersOnlyReadCache ==
    /\ [](\A p \in PageWorkers :
            /\ fp[p].st # "idle" =>
                  /\ mpc = "as_completed"
                  /\ mi > Len(Modalidades)
                  /\ fp[MainThread].st = "idle"
                  /\ \E d \in DOMAIN discovered : discovered[d].m = fp[p].m
            /\ fp[p].st \notin {"idle", "queued"} =>
                  Key(fp[p].m) \in DOMAIN PAGE_SIZE_CACHE
            /\ fp[p].st \notin {"idle", "queued", "check"} => fp[p].path = "cached"
            /\ Len(fp[p].sent) = IF fp[p].st \in {"ok", "failed"} THEN 1 ELSE 0)
    /\ [][(\E p \in PageWorkers : fp'[p] # fp[p])
             => PAGE_SIZE_CACHE' = PAGE_SIZE_CACHE]_vars

\* two page workers of one modality have both finished, each after one
\* request with the cached page size
C27_Witness ==
    /\ mpc = "as_completed"
    /\ \E p, q \in PageWorkers :
          /\ p # q
          /\ fp[p].st = "ok" /\ fp[q].st = "failed"
          /\ fp[p].path = "cached" /\ fp[q].path = "cached"
          /\ Len(fp[p].sent) = 1 /\ Len(fp[q].sent) = 1
          /\ fp[p].sent[1] = TamanhoPagina(PAGE_SIZE_CACHE[Key(fp[p].m)])

\* the steps still ahead of the call: of the call itself and of each future
Remaining ==
    LET ofCall == CASE ipc = "derive" -> 3
                    [] ipc = "call" -> 2
                    [] ipc = "as_completed" -> 1
                    [] OTHER -> 0
        ofFuture(k) == CASE wk[k].st = "queued" -> 4
                         [] wk[k].st = "running" -> 3
                         [] wk[k].st = "holding" -> 2
                         [] wk[k].st \in {"ok", "failed"} ->
                                IF k \in itens_coletados THEN 0 ELSE 1
                         [] OTHER -> 5
        n[k \in 0..MaxRecords] == IF k = 0 THEN 0 ELSE n[k - 1] + ofFuture(k)
    IN ofCall + n[MaxRecords]

\* future k is not stuck: it is finished, inside its request, or the pool
\* thread or the permit it waits for is free
CanStep(k) ==
    \/ wk[k].st \in {"ok", "failed"} /\ k \notin itens_coletados
    \/ wk[k].st = "holding"
    \/ wk[k].st = "running" /\ CONC_ITENS > 0
    \/ wk[k].st = "queued" /\ Cardinality(Busy) < MAX_WORKERS_ITENS

\* C28: a permit is held by exactly the workers inside their items request and
\* is given back when the request ends, successfully or not; while futures
\* are outstanding one of them can always move on (none waits for a permit
\* that never comes back) and every step brings the return nearer, so the
\* call returns, and then all MAX_WORKERS_ITENS permits are free.
C28_PermitsAlwaysReturned ==
    /\ [](/\ CONC_ITENS + Cardinality(Holding) = MAX_WORKERS_ITENS
          /\ CONC_ITENS >= 0
          /\ ipc = "returned" => CONC_ITENS = MAX_WORKERS_ITENS
          /\ ipc = "as_completed" /\ itens_coletados # DOMAIN ids_do_mes =>
                \E k \in DOMAIN ids_do_mes : CanStep(k))
    /\ [][Remaining' < Remaining]_vars

\* more ids than permits, requests that failed and requests that succeeded,
\* and the call has returned with every permit free
C28_Witness ==
    /\ ipc = "returned"
    /\ Len(ids_do_mes) > MAX_WORKERS_ITENS
    /\ Failed # {}
    /\ Succeeded # {}
    /\ CONC_ITENS = MAX_WORKERS_ITENS

-----------------------------------------------------------------------------
(* SpecAta: create_ata, update_ata and delete_ata_db with the triggers of  *)
(* init_db, src/database.py lines 301-337 and 564-642                      *)

InitAta ==
    /\ GetIdle
    /\ FetchIdle
    /\ CallsIdle
    /\ ItensIdle
    /\ SplitIdle
    /\ RunIdle
    /\ FornIdle
    /\ CurrencyIdle
    /\ ItemIdle
    /\ SituacaoIdle
    /\ \E db \in {EmptyDb, SeedDb} : ata = db.ata /\ ata_item = db.ata_item
    /\ last_op = NoOp

Db == [ata |-> ata, ata_item |-> ata_item, err |-> FALSE]

Ended(op, before, after) ==
    /\ ata' = Committed(before, after).ata
    /\ ata_item' = Committed(before, after).ata_item
    /\ last_op' = [op |-> op, raised |-> IF after.err THEN "IntegrityError" ELSE "none"]

\* lines 564-597
create_ata(numero, itens) ==
    /\ NextAtaId(ata) <= MaxAtaId
    /\ LET id == NextAtaId(ata)
           flushed == InsertAta(Db, id, numero)
       IN Ended("create_ata", Db, InsertItens(flushed, id, itens))

\* lines 600-634
update_ata(ata_id, dto) ==
    IF ~(\E a \in ata : a.id = ata_id)
    THEN /\ last_op' = [op |-> "update_ata", raised |-> "ValueError"]
         /\ UNCHANGED <<ata, ata_item>>
    ELSE LET deleted == IF dto.has_itens THEN DeleteItensOf(Db, ata_id) ELSE Db
             renamed == IF dto.numero # NoNumero
                        THEN SetNumero(deleted, ata_id, dto.numero) ELSE deleted
         IN Ended("update_ata", Db, InsertItens(renamed, ata_id, dto.itens))

\* lines 637-642: the items go first (cascade of the relationship), then the ata
delete_ata_db(ata_id) ==
    IF \E a \in ata : a.id = ata_id
    THEN LET emptied == DeleteItensOf(Db, ata_id)
         IN Ended("delete_ata_db", Db,
                  [emptied EXCEPT !.ata = {a \in @ : a.id # ata_id}])
    ELSE /\ last_op' = [op |-> "delete_ata_db", raised |-> "none"]
         /\ UNCHANGED <<ata, ata_item>>

NextAta ==
    \/ \E numero \in Numeros, itens \in ItensLists :
            create_ata(numero, itens) /\ UNCHANGED <<gvars, fvars, cvars, ivars, svars, rvars, nvars, uvars, tvars, qvars>>
    \/ \E ata_id \in 1..MaxAtaId, dto \in Dtos :
            update_ata(ata_id, dto) /\ UNCHANGED <<gvars, fvars, cvars, ivars, svars, rvars, nvars, uvars, tvars, qvars>>
    \/ \E ata_id \in 1..MaxAtaId :
            delete_ata_db(ata_id) /\ UNCHANGED <<gvars, fvars, cvars, ivars, svars, rvars, nvars, uvars, tvars, qvars>>

SpecAta == InitAta /\ [][NextAta]_vars

\* C29: whatever calls of create_ata, update_ata and delete_ata_db were made,
\* each stored ata's valor_total_centavos is the sum of quantidade x
\* valor_unit_centavos over the items it has now (0 without items), every
\* item belongs to a stored ata, and an update_ata that raised ValueError
\* for an unknown id left both tables as they were.
C29_TotalIsSumOfItems ==
    /\ [](/\ \A a \in ata :
                a.valor_total_centavos =
                    SumRows({row \in BagToSet(ata_item) : row.ata_id = a.id}, ata_item)
          /\ \A row \in BagToSet(ata_item) : \E a \in ata : a.id = row.ata_id)
    /\ [][last_op'.raised = "ValueError" => ata' = ata /\ ata_item' = ata_item]_vars

\* an update_ata with an "itens" list has replaced the items of an ata by
\* two equal ones, and its total is their sum
C29_Witness ==
    /\ last_op = [op |-> "update_ata", raised |-> "none"]
    /\ \E a \in ata :
          /\ a.valor_total_centavos = 500 + 500
          /\ CopiesIn([ata_id |-> a.id, quantidade |-> 2, valor_unit_centavos |-> 250],
                      ata_item) = 2

-----------------------------------------------------------------------------
(* SpecSituacao: fetch_atas over one ata, src/database.py lines 695-757    *)

InitSituacao ==
    /\ GetIdle
    /\ FetchIdle
    /\ CallsIdle
    /\ ItensIdle
    /\ SplitIdle
    /\ RunIdle
    /\ FornIdle
    /\ CurrencyIdle
    /\ ItemIdle
    /\ AtaIdle
    /\ data_fim \in 0..MaxDiasAdiante
    /\ agora \in TicksPerDay..(TicksPerDay * MaxDiasRelogio - 1)
    /\ fuso \in {0, 1}
    /\ dias_alerta_vencimento \in {NoConfig, 1}
    /\ view_situacao = ""
    /\ res_atas = NoLists
    /\ qpc = "query"

\* lines 737-738: the rows of v_ata_situacao
FetchAtasQuery ==
    /\ qpc = "query"
    /\ view_situacao' = v_ata_situacao(data_fim, agora, dias_alerta_vencimento)
    /\ qpc' = "rows"
    /\ UNCHANGED <<data_fim, agora, fuso, dias_alerta_vencimento, res_atas>>

\* lines 740-747: the dict of the row's ata goes to the list of the row's situacao
FetchAtasReturn ==
    /\ qpc = "rows"
    /\ res_atas' = [res_atas EXCEPT ![ListKey(view_situacao)] =
                 Append(@, AtaDictSituacao(data_fim, agora, fuso, dias_alerta_vencimento))]
    /\ qpc' = "returned"
    /\ UNCHANGED <<data_fim, agora, fuso, dias_alerta_vencimento, view_situacao>>

NextSituacao ==
    \/ FetchAtasQuery /\ UNCHANGED <<gvars, fvars, cvars, ivars, svars, rvars, nvars, uvars, tvars, avars>>
    \/ FetchAtasReturn /\ UNCHANGED <<gvars, fvars, cvars, ivars, svars, rvars, nvars, uvars, tvars, avars>>

SpecSituacao == InitSituacao /\ [][NextSituacao]_vars

\* C30: whatever the date and time, fetch_atas puts the ata in exactly one
\* of its three lists, and the "situacao" of the dict in that list names the
\* same situation as the list: Vigente in vigentes, A Vencer in aVencer,
\* Vencida in vencidas.
C30_ListAgreesWithSituacao ==
    qpc = "returned" =>
        /\ Len(res_atas.vigentes) + Len(res_atas.aVencer) + Len(res_atas.vencidas) = 1
        /\ \A i \in DOMAIN res_atas.vigentes : res_atas.vigentes[i] = "Vigente"
        /\ \A i \in DOMAIN res_atas.aVencer : res_atas.aVencer[i] = "A Vencer"
        /\ \A i \in DOMAIN res_atas.vencidas : res_atas.vencidas[i] = "Vencida"

====
